---- MODULE Spec2Model ----
(***************************************************************************)
(* Outline <-> document synchronisation engine of the mindmap editor:      *)
(* the outline parser (util.ts), the text-splice editor (mindmap-file.ts), *)
(* the command history (command-history.ts) and the view handlers that     *)
(* route gestures through them (mindmapView.ts).                           *)
(*                                                                         *)
(* A text (DocString) is a sequence of characters, a character is a        *)
(* one-token string.  Line and node indices are 0-based as in the code;    *)
(* At(lines, i) reads lines[i].                                            *)
(***************************************************************************)
EXTENDS Integers, Sequences, FiniteSets, TLC

\* ------------------------------------------------------------ characters
TAB == "TAB"
SP == "SP"
CR == "CR"
NL == "LF"

\* the characters the regular-expression class \s matches (within a line)
IsWs(c) == c \in {TAB, SP, CR}

IsDigit(c) == c \in {"0", "1", "2", "3", "4", "5", "6", "7", "8", "9"}

\* ------------------------------------------------------------ arrays
At(s, i) == s[i + 1]

Min(a, b) == IF a < b THEN a ELSE b
Max(a, b) == IF a > b THEN a ELSE b

\* `const name = value; ...`: the body In with the name bound to the value
Bind(value, In(_)) == In(value)

\* a relative index of slice/splice, resolved as the language defines
RelIndex(s, k) == IF k < 0 THEN Max(Len(s) + k, 0) ELSE Min(k, Len(s))

\* Array.prototype.slice(from, to)
Slice(s, from, to) == SubSeq(s, RelIndex(s, from) + 1, RelIndex(s, to))

\* Array.prototype.slice(from)
SliceFrom(s, from) == SubSeq(s, RelIndex(s, from) + 1, Len(s))

\* Array.prototype.splice(start, deleteCount, ...items): the array afterwards.
\* start and deleteCount are clamped as the language defines.
JsSplice(s, start, deleteCount, items) ==
  LET st == RelIndex(s, start)
      dc == Min(Max(deleteCount, 0), Len(s) - st)
  IN SubSeq(s, 1, st) \o items \o SubSeq(s, st + dc + 1, Len(s))

\* String.prototype.startsWith
StartsWith(s, p) == Len(p) <= Len(s) /\ SubSeq(s, 1, Len(p)) = p

\* line.match(/^(\s*)/)[1]: the longest prefix of whitespace
RECURSIVE WsRun(_, _)
WsRun(s, i) ==
  IF i <= Len(s) /\ IsWs(s[i]) THEN WsRun(s, i + 1) ELSE i - 1

LeadingWs(line) == SubSeq(line, 1, WsRun(line, 1))

\* line.trim() === ''
IsBlank(line) == \A i \in 1..Len(line) : IsWs(line[i])

\* ------------------------------------------------------------ split / join
\* fileText.split(/\r?\n/)
RECURSIVE SplitFrom(_, _, _, _)
SplitFrom(text, i, cur, acc) ==
  IF i > Len(text) THEN Append(acc, cur)
  ELSE IF text[i] = NL THEN SplitFrom(text, i + 1, <<>>, Append(acc, cur))
  ELSE IF text[i] = CR /\ i < Len(text) /\ text[i + 1] = NL
       THEN SplitFrom(text, i + 2, <<>>, Append(acc, cur))
  ELSE SplitFrom(text, i + 1, Append(cur, text[i]), acc)

Split(text) == SplitFrom(text, 1, <<>>, <<>>)

\* lines.join('\n')
RECURSIVE Join(_)
Join(lines) ==
  IF Len(lines) = 0 THEN <<>>
  ELSE IF Len(lines) = 1 THEN lines[1]
  ELSE lines[1] \o <<NL>> \o Join(Tail(lines))

\* ------------------------------------------------------------ subtree span
RECURSIVE subtreeEndFrom(_, _, _)
subtreeEndFrom(lines, i, baseIndentLength) ==
  IF i >= Len(lines) THEN Len(lines)
  ELSE IF Len(LeadingWs(At(lines, i))) <= baseIndentLength /\ ~IsBlank(At(lines, i))
       THEN i
  ELSE subtreeEndFrom(lines, i + 1, baseIndentLength)

\* a span of the one line start, whatever follows it
subtreeEndNextLine(lines, start, indent) == Min(start + 1, Len(lines))

subtreeEnd(lines, start, indent) == subtreeEndFrom(lines, start + 1, Len(indent))

\* ------------------------------------------------------------ outline parser
NoMatch == [ok |-> FALSE]

RECURSIVE DigitRun(_, _)
DigitRun(s, i) ==
  IF i <= Len(s) /\ IsDigit(s[i]) THEN DigitRun(s, i + 1) ELSE i - 1

\* a match that knows bullets only, no ordinals
MatchListItemBulletsOnly(line) ==
  Bind(WsRun(line, 1), LAMBDA w :
  Bind(IF w + 1 <= Len(line) /\ line[w + 1] \in {"-", "*", "+"} THEN w + 1 ELSE 0,
       LAMBDA m :
  Bind(WsRun(line, m + 1), LAMBDA s :
  Bind(SubSeq(line, s + 1, Len(line)), LAMBDA rest :
    IF m = 0 \/ s = m \/ (\E i \in 1..Len(rest) : rest[i] \in {CR, NL})
    THEN NoMatch
    ELSE [ok |-> TRUE, indent |-> SubSeq(line, 1, w),
          marker |-> SubSeq(line, w + 1, m), text |-> rest]))))

\* line.match(/^(\s*)([-*+]|\d+\.)\s+(.*)$/): groups 1..3, or NoMatch.
\* '.' does not match a line terminator, so a CR left in the rest fails the match.
\* w, d, m, s: last index of the indent, of a digit run, of the marker and of
\* the \s+ run
MatchListItem(line) ==
  Bind(WsRun(line, 1), LAMBDA w :
  Bind(DigitRun(line, w + 1), LAMBDA d :
  Bind(IF w + 1 <= Len(line) /\ line[w + 1] \in {"-", "*", "+"} THEN w + 1
       ELSE IF d > w /\ d + 1 <= Len(line) /\ line[d + 1] = "." THEN d + 1
       ELSE 0, LAMBDA m :
  Bind(WsRun(line, m + 1), LAMBDA s :
  Bind(SubSeq(line, s + 1, Len(line)), LAMBDA rest :
    IF m = 0 \/ s = m \/ (\E i \in 1..Len(rest) : rest[i] \in {CR, NL})
    THEN NoMatch
    ELSE [ok |-> TRUE, indent |-> SubSeq(line, 1, w),
          marker |-> SubSeq(line, w + 1, m), text |-> rest])))))

\* a length that counts a tab as one character
NormalizedLengthTabIsOne(indent) == Len(indent)

\* indentSpaces.replace(/\t/g, '    ').length
RECURSIVE NormalizedLength(_)
NormalizedLength(indent) ==
  IF Len(indent) = 0 THEN 0
  ELSE (IF Head(indent) = TAB THEN 4 ELSE 1) + NormalizedLength(Tail(indent))

\* text.match(/^\[.\]\s/) ? text.substring(4) : text
StripCheckbox(text) ==
  IF Len(text) >= 4 /\ text[1] = "[" /\ text[2] \notin {CR, NL} /\ text[3] = "]"
     /\ IsWs(text[4])
  THEN SubSeq(text, 5, Len(text))
  ELSE text

\* the while loop that finds the nesting level in the indent ladder
RECURSIVE FindLevel(_, _, _)
FindLevel(indentLevels, indentLength, level) ==
  IF level < Len(indentLevels) /\ indentLength > At(indentLevels, level)
  THEN FindLevel(indentLevels, indentLength, level + 1)
  ELSE level

\* while (levelStack.length <= level) levelStack.push(node); levelStack[level] = node
RECURSIVE PadStack(_, _, _)
PadStack(levelStack, level, node) ==
  IF Len(levelStack) <= level THEN PadStack(Append(levelStack, node), level, node)
  ELSE [levelStack EXCEPT ![level + 1] = node]

NoParent == -1

\* One iteration of the scan.  st.nodes is the list of nodes created so far (in
\* creation order), each with the line of the node it was pushed under
\* (parent, NoParent for a root); st.levelStack holds node lines.  st.levels
\* is the level found for each node, and st.brokenChain tells whether the
\* last branch (level > 0 and no node recorded at level - 1) was taken.
ParseLine(st, line, i) ==
  Bind(MatchListItem(line), LAMBDA match :
    IF ~match.ok THEN st
    ELSE
      Bind(NormalizedLength(match.indent), LAMBDA indentLength :
      Bind(FindLevel(st.indentLevels, indentLength, 0), LAMBDA level :
      Bind(IF level >= Len(st.indentLevels) \/ At(st.indentLevels, level) # indentLength
           THEN JsSplice(st.indentLevels, level, 0, <<indentLength>>)
           ELSE st.indentLevels, LAMBDA ladder1 :
      Bind(level < Len(st.levelStack), LAMBDA dedent :
      Bind(IF dedent THEN SubSeq(st.levelStack, 1, level) ELSE st.levelStack, LAMBDA stack1 :
      Bind(IF dedent THEN SubSeq(ladder1, 1, Min(level + 1, Len(ladder1))) ELSE ladder1,
           LAMBDA ladder2 :
      Bind(IF level = 0 THEN NoParent
           ELSE IF level <= Len(stack1) THEN At(stack1, level - 1)
           ELSE NoParent, LAMBDA parent :
        [nodes |-> Append(st.nodes,
                     [text |-> StripCheckbox(match.text), indent |-> match.indent,
                      marker |-> match.marker, line |-> i, parent |-> parent]),
         levelStack |-> PadStack(stack1, level, i),
         indentLevels |-> ladder2,
         levels |-> Append(st.levels, level),
         brokenChain |-> st.brokenChain \/ (level > 0 /\ level > Len(stack1))]))))))))

RECURSIVE ParseFrom(_, _, _)
ParseFrom(st, lines, i) ==
  IF i >= Len(lines) THEN st
  ELSE ParseFrom(ParseLine(st, At(lines, i), i), lines, i + 1)

\* the for loop of parseOutline over the lines of the text
scanOutline(markdown) ==
  ParseFrom([nodes |-> <<>>, levelStack |-> <<>>, indentLevels |-> <<>>,
             levels |-> <<>>, brokenChain |-> FALSE],
            Split(markdown), 0)

\* children of the node at line p (NoParent: the roots), in push order
ChildrenOf(nodes, p) == SelectSeq(nodes, LAMBDA n : n.parent = p)

\* an end line taken from the first child
RECURSIVE EndLineOfFirstChild(_, _)
EndLineOfFirstChild(nodes, n) ==
  LET ch == ChildrenOf(nodes, n.line)
  IN IF Len(ch) > 0 THEN EndLineOfFirstChild(nodes, ch[1]) ELSE n.line

\* calculateEndLines: a leaf's endLine is its line, an internal node's is its
\* last child's endLine
RECURSIVE EndLineOf(_, _)
EndLineOf(nodes, n) ==
  LET ch == ChildrenOf(nodes, n.line)
  IN IF Len(ch) > 0 THEN EndLineOf(nodes, ch[Len(ch)]) ELSE n.line

\* parseOutline(markdown): the forest, as the list of its nodes in creation
\* order; node.parent and the order of the list give children and roots.
parseOutline(markdown) ==
  Bind(scanOutline(markdown).nodes, LAMBDA nodes :
    [k \in 1..Len(nodes) |->
       [text |-> nodes[k].text, indent |-> nodes[k].indent,
        marker |-> nodes[k].marker, line |-> nodes[k].line,
        endLine |-> EndLineOf(nodes, nodes[k]),
        parent |-> nodes[k].parent]])

\* walk(arr): each node of arr, followed by the walk of its children
RECURSIVE walk(_, _)
walk(forest, arr) ==
  IF Len(arr) = 0 THEN <<>>
  ELSE <<arr[1]>> \o walk(forest, ChildrenOf(forest, arr[1].line))
         \o walk(forest, Tail(arr))

\* the walk listed from its last node to its first
flattenOutlineLastFirst(forest) ==
  Bind(walk(forest, ChildrenOf(forest, NoParent)), LAMBDA w :
    [k \in 1..Len(w) |-> w[Len(w) + 1 - k]])

\* flattenOutline(nodes): the nodes of the forest in pre-order
flattenOutline(forest) == walk(forest, ChildrenOf(forest, NoParent))

\* ------------------------------------------------------------ compatibility guard
\* String.prototype.trim
RECURSIVE WsRunBack(_, _)
WsRunBack(s, i) ==
  IF i >= 1 /\ IsWs(s[i]) THEN WsRunBack(s, i - 1) ELSE i

Trim(line) == SubSeq(line, WsRun(line, 1) + 1, WsRunBack(line, Len(line)))

Rule == <<"-", "-", "-">>

\* lines.findIndex((line, i) => i > 0 && line.trim() === '---'), from index i
RECURSIVE FindRule(_, _)
FindRule(lines, i) ==
  IF i >= Len(lines) THEN -1
  ELSE IF i > 0 /\ Trim(At(lines, i)) = Rule THEN i
  ELSE FindRule(lines, i + 1)

\* startIndex: the line after the frontmatter, 0 when there is none
StartIndex(lines) ==
  IF Trim(At(lines, 0)) = Rule /\ FindRule(lines, 0) # -1
  THEN FindRule(lines, 0) + 1
  ELSE 0

\* line.match(/^\s*([-*+]|\d+\.)\s+/) succeeds
IsOutlineItem(line) ==
  Bind(WsRun(line, 1), LAMBDA w :
  Bind(DigitRun(line, w + 1), LAMBDA d :
  Bind(IF w + 1 <= Len(line) /\ line[w + 1] \in {"-", "*", "+"} THEN w + 1
       ELSE IF d > w /\ d + 1 <= Len(line) /\ line[d + 1] = "." THEN d + 1
       ELSE 0, LAMBDA m :
    m # 0 /\ WsRun(line, m + 1) > m)))

\* a guard that takes an unterminated '---' line for a whole frontmatter
isOutlineCompatibleOpenFrontmatter(markdown) ==
  LET lines == Split(markdown)
      startIndex == IF Trim(At(lines, 0)) = Rule THEN Len(lines) ELSE 0
      nonEmptyLines == SelectSeq(SliceFrom(lines, startIndex), LAMBDA line : ~IsBlank(line))
  IN \A k \in 1..Len(nonEmptyLines) : IsOutlineItem(nonEmptyLines[k])

isOutlineCompatible(markdown) ==
  LET lines == Split(markdown)
      contentLines == SliceFrom(lines, StartIndex(lines))
      nonEmptyLines == SelectSeq(contentLines, LAMBDA line : ~IsBlank(line))
  IN IF Len(nonEmptyLines) = 0 THEN TRUE
     ELSE \A k \in 1..Len(nonEmptyLines) : IsOutlineItem(nonEmptyLines[k])

isEmptyContent(markdown) ==
  LET lines == Split(markdown)
      contentLines == SliceFrom(lines, StartIndex(lines))
  IN \A k \in 1..Len(contentLines) : IsBlank(contentLines[k])

\* ------------------------------------------------------------ diagram
(* What the view shows.  view.cy: the cytoscape instance exists; view.screen *)
(* what the content element holds ("empty": the empty-state prompt,          *)
(* "rejected": the incompatibility warning, "diagram": the wrapper of the    *)
(* diagram, "closed": nothing, the view is closed); view.elements the text   *)
(* whose parse the cytoscape instance holds as its elements.                 *)
\* view.isUpdatingOverlays: an overlay update is scheduled and has not run;
\* view.sizeMap: the measurement cache, one entry per measured line; the size
\* of an entry is kept as what determines it, the text that was measured (of)
\* and the target width it was measured at (width);
\* view.nodeWidth: nodeOptions.nodeWidth, the target width;
\* view.firstFitDone: the flag of the one-time fit;
\* view.viewport: the zoom and pan of the instance, kept as what set them
\* last ("initial": the instance's own, "layoutstop": the fit of the
\* 'layoutstop' handler, "fitToView": the fit of fitToView, "user": a pan or
\* zoom gesture);
\* view.overlays: the lines of the nodes that have an overlay box;
\* view.inlineEditor: the element a double click put into an overlay box to
\* edit its text ("none" when no box is being edited).
defaultNodeWidth == 300

NoView ==
  [cy |-> FALSE, screen |-> "empty", elements |-> <<>>,
   isUpdatingOverlays |-> FALSE, sizeMap |-> {}, overlays |-> {},
   inlineEditor |-> "none", nodeWidth |-> defaultNodeWidth,
   firstFitDone |-> FALSE, viewport |-> "initial"]

\* the lines of the nodes of the flattened parse of a text
FlatLines(d) ==
  Bind(parseOutline(d), LAMBDA forest : { forest[k].line : k \in 1..Len(forest) })

\* the measurement of each node of the parse of d at target width w
Measure(d, w) ==
  Bind(parseOutline(d), LAMBDA forest :
    { [line |-> forest[k].line, of |-> forest[k].text, width |-> w] :
        k \in 1..Len(forest) })

\* the lines that have an entry: sizeMap.has(line)
CachedLines(v) == { e.line : e \in v.sizeMap }

\* sizeMap.set(n.line, ...) for each of the entries
SetSizes(sizeMap, entries) ==
  { e \in sizeMap : \A m \in entries : m.line # e.line } \cup entries

\* drawMindmap(view): a first draw builds the wrapper and the instance, a
\* later draw replaces the elements of the instance it finds; every node is
\* measured anew
drawMindmap(v, d) ==
  [v EXCEPT !.cy = TRUE, !.screen = IF v.cy THEN v.screen ELSE "diagram",
            !.elements = d, !.sizeMap = Measure(d, v.nodeWidth),
            !.firstFitDone = TRUE,
            !.viewport = IF v.firstFitDone THEN v.viewport ELSE "layoutstop"]

\* MindmapView.draw
draw(v, d) ==
  IF isEmptyContent(d) THEN [v EXCEPT !.screen = "empty"]
  ELSE IF ~isOutlineCompatible(d) THEN [v EXCEPT !.screen = "rejected"]
  ELSE drawMindmap(v, d)

\* MindmapView.incrementalUpdate (the view has a file)
\* nodesToMeasure: the nodes of the parse whose line has no entry
nodesToMeasure(v, d) ==
  { m \in Measure(d, v.nodeWidth) : m.line \notin CachedLines(v) }

\* MindmapView.incrementalUpdate (the view has a file)
incrementalUpdate(v, d) ==
  IF ~v.cy THEN draw(v, d)
  ELSE [v EXCEPT !.elements = d, !.sizeMap = SetSizes(v.sizeMap, nodesToMeasure(v, d))]

\* ------------------------------------------------------------ host I/O
(* The host (vault, workspace) as one splice operation sees it.  io.file is  *)
(* the file's text on disk, io.editorOpen whether a markdown editor of the   *)
(* same file is open and io.editor its buffer.  io.readOk, io.writeOk and    *)
(* io.rereadOk say whether vault.read, vault.modify and the second           *)
(* vault.read succeed; io.flushed whether the host has saved the editor's    *)
(* buffer to disk by the time of the second read (the host decides).         *)

\* what an operation leaves behind: the value it resolves to (or threw), the
\* text it read, the text it handed to persistLines (computed, when persisted),
\* and the file and editor buffer afterwards
Outcome(io, threw, ret, readText, persisted, computed, file, editor, setValue, modify) ==
  [readOk |-> io.readOk, writeOk |-> io.writeOk, rereadOk |-> io.rereadOk,
   flushed |-> io.flushed,
   threw |-> threw, ret |-> ret, readText |-> readText, persisted |-> persisted,
   computed |-> computed, file |-> file, editor |-> editor,
   setValueCalled |-> setValue, modifyCalled |-> modify]

\* the first vault.read threw and the operation does not catch it
ReadThrows(io) ==
  Outcome(io, TRUE, <<>>, <<>>, FALSE, <<>>, io.file, io.editor, FALSE, FALSE)

\* an early `return text` before any write
Returns(io, text, readText) ==
  Outcome(io, FALSE, text, readText, FALSE, <<>>, io.file, io.editor, FALSE, FALSE)

\* a persistence step that writes the file even when an editor took the text
persistLinesAlwaysWrites(io, fileText, lines, catchReread) ==
  LET newDoc == Join(lines)
      file1 == IF io.writeOk THEN newDoc ELSE io.file
      threw == ~io.rereadOk /\ ~catchReread
      refreshed == IF io.rereadOk THEN file1
                   ELSE IF catchReread THEN newDoc ELSE <<>>
  IN Outcome(io, threw, refreshed, fileText, TRUE, newDoc, file1,
             IF io.editorOpen THEN newDoc ELSE io.editor, io.editorOpen, TRUE)

\* persistLines(app, file, lines), then `refreshed = await app.vault.read(file)`;
\* catchReread: the operation falls back to lines.join('\n') when that read throws
persistLines(io, fileText, lines, catchReread) ==
  LET newDoc == Join(lines)
      writtenViaEditor == io.editorOpen
      editor1 == IF writtenViaEditor THEN newDoc ELSE io.editor
      file1 == IF writtenViaEditor
               THEN (IF io.flushed THEN newDoc ELSE io.file)
               ELSE (IF io.writeOk THEN newDoc ELSE io.file)
      threw == ~io.rereadOk /\ ~catchReread
      refreshed == IF io.rereadOk THEN file1
                   ELSE IF catchReread THEN newDoc ELSE <<>>
  IN Outcome(io, threw, refreshed, fileText, TRUE, newDoc, file1, editor1,
             writtenViaEditor, ~writtenViaEditor)

\* node.line < 0 || node.line >= lines.length
OutOfRangeAllowsMinusOne(node, lines) == node.line < -1 \/ node.line >= Len(lines)

OutOfRange(node, lines) == node.line < 0 \/ node.line >= Len(lines)

\* ------------------------------------------------------------ splice editor
addChildFirstOrLast(io, parent) ==
  LET lines == Split(io.file)
  IN IF ~io.readOk THEN Returns(io, <<>>, <<>>)
     ELSE IF OutOfRange(parent, lines) THEN Returns(io, io.file, io.file)
     ELSE persistLines(io, io.file,
            JsSplice(lines, subtreeEnd(lines, parent.line, parent.indent), 0,
                     <<parent.indent \o <<TAB>> \o <<"-", SP>>>>), TRUE)

addChild(io, parent) ==
  LET fileText == io.file
      lines == Split(fileText)
  IN IF ~io.readOk THEN Returns(io, <<>>, <<>>)
     ELSE IF OutOfRange(parent, lines) THEN Returns(io, fileText, fileText)
     ELSE
       LET insertIndex == parent.line + 1
           childIndent == parent.indent \o <<TAB>>
           newLine == childIndent \o <<"-", SP>>
       IN persistLines(io, fileText, JsSplice(lines, insertIndex, 0, <<newLine>>), TRUE)

addSibling(io, node) ==
  LET fileText == io.file
      lines == Split(fileText)
  IN IF ~io.readOk THEN Returns(io, <<>>, <<>>)
     ELSE IF OutOfRange(node, lines) THEN Returns(io, fileText, fileText)
     ELSE
       LET insertIndex == subtreeEnd(lines, node.line, node.indent)
           newLine == node.indent \o node.marker \o <<SP>>
       IN persistLines(io, fileText, JsSplice(lines, insertIndex, 0, <<newLine>>), TRUE)

\* the earlier writeNode: a checkbox token found on the line is put back
writeNodeKeepsCheckbox(io, node, txt) ==
  LET fileText == io.file
      lines == Split(fileText)
  IN IF ~io.readOk THEN ReadThrows(io)
     ELSE IF OutOfRange(node, lines) THEN Returns(io, fileText, fileText)
     ELSE
       LET m == MatchListItem(At(lines, node.line))
           token == IF m.ok /\ StripCheckbox(m.text) # m.text
                    THEN <<SP>> \o SubSeq(m.text, 1, 3) ELSE <<>>
           newLine == node.indent \o node.marker \o token \o <<SP>> \o txt
       IN persistLines(io, fileText, [lines EXCEPT ![node.line + 1] = newLine], FALSE)

writeNode(io, node, txt) ==
  LET fileText == io.file
      lines == Split(fileText)
  IN IF ~io.readOk THEN ReadThrows(io)
     ELSE IF OutOfRange(node, lines) THEN Returns(io, fileText, fileText)
     ELSE
       LET prefix == node.indent \o node.marker
           newLine == prefix \o <<SP>> \o txt
       IN persistLines(io, fileText, [lines EXCEPT ![node.line + 1] = newLine], FALSE)

deleteNodeOnlyLine(io, node) ==
  LET lines == Split(io.file)
  IN IF ~io.readOk THEN ReadThrows(io)
     ELSE IF OutOfRange(node, lines) THEN Returns(io, io.file, io.file)
     ELSE persistLines(io, io.file, JsSplice(lines, node.line, 1, <<>>), FALSE)

deleteNode(io, node) ==
  LET fileText == io.file
      lines == Split(fileText)
  IN IF ~io.readOk THEN ReadThrows(io)
     ELSE IF OutOfRange(node, lines) THEN Returns(io, fileText, fileText)
     ELSE
       LET end == subtreeEnd(lines, node.line, node.indent)
       IN persistLines(io, fileText, JsSplice(lines, node.line, end - node.line, <<>>), FALSE)

\* the loop of deleteNodeKeepChildren, from index i on
RECURSIVE PromoteFrom(_, _, _)
PromoteFrom(lines, i, indent) ==
  IF i >= Len(lines) THEN lines
  ELSE IF StartsWith(At(lines, i), indent \o <<TAB>>)
       THEN PromoteFrom(
              [lines EXCEPT ![i + 1] =
                 indent \o SubSeq(At(lines, i), Len(indent) + 2, Len(At(lines, i)))],
              i + 1, indent)
  ELSE IF Len(LeadingWs(At(lines, i))) <= Len(indent) THEN lines
  ELSE PromoteFrom(lines, i + 1, indent)

deleteNodeKeepChildren(io, node) ==
  LET fileText == io.file
      lines == Split(fileText)
  IN IF ~io.readOk THEN ReadThrows(io)
     ELSE IF OutOfRange(node, lines) THEN Returns(io, fileText, fileText)
     \* the loop starts at i = node.line: lines[i] is undefined for a negative i
     \* and undefined.startsWith throws
     ELSE IF node.line < 0
          THEN Outcome(io, TRUE, <<>>, fileText, FALSE, <<>>, io.file, io.editor, FALSE, FALSE)
     ELSE
       LET removed == JsSplice(lines, node.line, 1, <<>>)
       IN persistLines(io, fileText, PromoteFrom(removed, node.line, node.indent), FALSE)

\* '\t'.repeat(n)
RECURSIVE Tabs(_)
Tabs(n) == IF n <= 0 THEN <<>> ELSE <<TAB>> \o Tabs(n - 1)

\* line.replace(new RegExp(`^\t{0,${removeCount}}`), '')
RECURSIVE StripTabs(_, _)
StripTabs(line, removeCount) ==
  IF removeCount > 0 /\ Len(line) > 0 /\ Head(line) = TAB
  THEN StripTabs(Tail(line), removeCount - 1)
  ELSE line

\* a moved line passed through with the indentation it had
AdjustLineKeepsIndent(line, indentDiff) == line

\* the map callback that re-indents one moved line
AdjustLine(line, indentDiff) ==
  IF IsBlank(line) THEN line
  ELSE IF indentDiff > 0 THEN Tabs(indentDiff) \o line
  ELSE IF indentDiff < 0 THEN StripTabs(line, -indentDiff)
  ELSE line

\* beforeState: NoText when the caller passes none
NoText == <<"undefined">>

\* the target's index once the source span is removed, with no shift
adjustedTargetLineUnshifted(source, target, sourceEnd) == target.line

\* let adjustedTargetLine = target.line; if (target.line > source.line)
\* adjustedTargetLine -= (sourceEnd - source.line)
adjustedTargetLine(source, target, sourceEnd) ==
  IF target.line > source.line THEN target.line - (sourceEnd - source.line)
  ELSE target.line

moveSubtree(io, source, target, insertAsChild, beforeState) ==
  LET useRead == beforeState = NoText \/ beforeState = <<>>
      fileText == IF useRead THEN io.file ELSE beforeState
      originalLines == Split(fileText)
  IN IF useRead /\ ~io.readOk THEN ReadThrows(io)
     ELSE IF OutOfRange(source, originalLines) \/ OutOfRange(target, originalLines)
          THEN Returns(io, fileText, fileText)
     ELSE IF source.line = target.line THEN Returns(io, fileText, fileText)
     ELSE
       LET sourceEnd == subtreeEnd(originalLines, source.line, source.indent)
           sourceLines == Slice(originalLines, source.line, sourceEnd)
           linesAfterRemoval == Slice(originalLines, 0, source.line)
                                \o SliceFrom(originalLines, sourceEnd)
           adjustedLine == adjustedTargetLine(source, target, sourceEnd)
           insertionPoint == IF insertAsChild THEN adjustedLine + 1
                             ELSE subtreeEnd(linesAfterRemoval, adjustedLine, target.indent)
           newIndent == IF insertAsChild THEN target.indent \o <<TAB>> ELSE target.indent
           indentDiff == Len(newIndent) - Len(source.indent)
           adjustedSourceLines == [k \in 1..Len(sourceLines) |->
                                     AdjustLine(sourceLines[k], indentDiff)]
           finalLines == Slice(linesAfterRemoval, 0, insertionPoint)
                         \o adjustedSourceLines
                         \o SliceFrom(linesAfterRemoval, insertionPoint)
       IN \* subtreeEnd reads lines[adjustedTargetLine + 1]: undefined.match throws
          IF ~insertAsChild /\ adjustedLine + 1 < 0
          THEN Outcome(io, TRUE, <<>>, fileText, FALSE, <<>>, io.file, io.editor, FALSE, FALSE)
          ELSE persistLines(io, fileText, finalLines, FALSE)

addChildText(io, parent, text) ==
  LET fileText == io.file
      lines == Split(fileText)
  IN IF ~io.readOk THEN ReadThrows(io)
     ELSE IF OutOfRange(parent, lines) THEN Returns(io, fileText, fileText)
     ELSE
       LET insertIndex == parent.endLine + 1
           childIndent == parent.indent \o <<TAB>>
           newLine == childIndent \o <<"-", SP>> \o text
       IN persistLines(io, fileText, JsSplice(lines, insertIndex, 0, <<newLine>>), FALSE)

\* ------------------------------------------------------------ command history
maxHistorySize == 20
maxContentLength == 50000

\* the marker, a string of 14 characters
TruncationMarker == "...[truncated]"

\* a snapshot cut at the ceiling with no marker after it
TruncatedNoMarker(state) ==
  IF Len(state) > maxContentLength THEN SubSeq(state, 1, maxContentLength)
  ELSE state

\* the beforeState / afterState stored by executeCommand
Truncated(state) ==
  IF Len(state) > maxContentLength
  THEN SubSeq(state, 1, maxContentLength) \o TruncationMarker
  ELSE state

\* CommandHistory as a value: [history, currentIndex]
EmptyHistory == [history |-> <<>>, currentIndex |-> -1]

executeCommandKeepRedoTail(h, command) ==
  LET pushed == Append(h.history, command)
  IN [history |-> pushed, currentIndex |-> Len(pushed) - 1]

executeCommandNoEviction(h, command) ==
  LET pushed == Append(JsSplice(h.history, h.currentIndex + 1,
                                Len(h.history), <<>>), command)
  IN [history |-> pushed, currentIndex |-> Len(pushed) - 1]

executeCommand(h, command) ==
  LET truncatedCommand == [command EXCEPT !.beforeState = Truncated(command.beforeState),
                                          !.afterState = Truncated(command.afterState)]
      kept == JsSplice(h.history, h.currentIndex + 1, Len(h.history), <<>>)
      pushed == Append(kept, truncatedCommand)
      index == Len(pushed) - 1
  IN IF Len(pushed) > maxHistorySize
     THEN LET removeCount == Len(pushed) - maxHistorySize
          IN [history |-> JsSplice(pushed, 0, removeCount, <<>>),
              currentIndex |-> index - removeCount]
     ELSE [history |-> pushed, currentIndex |-> index]

canUndo(h) == h.currentIndex >= 0

canRedo(h) == h.currentIndex < Len(h.history) - 1

\* the null sentinel undo and redo return
Null == <<"null">>

Restored(h, fileText, ret, modifyCalled) ==
  [h |-> h, file |-> fileText, ret |-> ret, modifyCalled |-> modifyCalled]

undoNoRollback(h, fileText, writeOk) ==
  IF ~canUndo(h) THEN Restored(h, fileText, Null, FALSE)
  ELSE LET command == At(h.history, h.currentIndex)
           moved == [h EXCEPT !.currentIndex = @ - 1]
       IN IF writeOk THEN Restored(moved, command.beforeState, command.beforeState, TRUE)
          ELSE Restored(moved, fileText, Null, TRUE)

undoWritesAfterState(h, fileText, writeOk) ==
  IF ~canUndo(h) THEN Restored(h, fileText, Null, FALSE)
  ELSE LET command == At(h.history, h.currentIndex)
           moved == [h EXCEPT !.currentIndex = @ - 1]
       IN IF writeOk THEN Restored(moved, command.afterState, command.afterState, TRUE)
          ELSE Restored(h, fileText, Null, TRUE)

\* CommandHistory.undo(file); writeOk: vault.modify does not throw
undo(h, fileText, writeOk) ==
  IF ~canUndo(h) THEN Restored(h, fileText, Null, FALSE)
  ELSE
    LET command == At(h.history, h.currentIndex)
        moved == [h EXCEPT !.currentIndex = @ - 1]
    IN IF writeOk
       THEN Restored(moved, command.beforeState, command.beforeState, TRUE)
       ELSE Restored([moved EXCEPT !.currentIndex = @ + 1], fileText, Null, TRUE)

\* CommandHistory.redo(file)
redo(h, fileText, writeOk) ==
  IF ~canRedo(h) THEN Restored(h, fileText, Null, FALSE)
  ELSE
    LET command == At(h.history, h.currentIndex + 1)
        moved == [h EXCEPT !.currentIndex = @ + 1]
    IN IF writeOk
       THEN Restored(moved, command.afterState, command.afterState, TRUE)
       ELSE Restored([moved EXCEPT !.currentIndex = @ - 1], fileText, Null, TRUE)

\* createNodeInfo(node); text.substring(0, 50)
createNodeInfo(node) ==
  [line |-> node.line, text |-> SubSeq(node.text, 1, Min(Len(node.text), 50)),
   indent |-> node.indent, marker |-> node.marker]

NoInfo == [line |-> -1, text |-> <<>>, indent |-> <<>>, marker |-> <<>>]

\* a MindmapCommand (timestamp and metadata are not read by the history)
Command(type, beforeState, afterState, nodeInfo, targetInfo) ==
  [type |-> type, beforeState |-> beforeState, afterState |-> afterState,
   nodeInfo |-> nodeInfo, targetInfo |-> targetInfo]

\* ------------------------------------------------------------ state
VARIABLES
  file,          \* the text of the file on disk (vault)
  editorOpen,    \* a markdown editor of the same file is open
  editor,        \* that editor's buffer
  data,          \* MindmapView.data, the text the view displays
  cmds,          \* MindmapView.commandHistory: [history, currentIndex]
  last,          \* the handler that ran last, its arguments and its outcome
  nExec,         \* number of commands recorded so far
  nMidUndo,      \* number of undo calls made before the last command
  view,          \* what the view shows: [cy, screen, elements]
  otherFile,     \* the text of a second file of the vault
  procs          \* the gestures in flight: gesture |-> [pc, op, node, ...]

vars == <<file, editorOpen, editor, data, cmds, last, nExec, nMidUndo, view,
          otherFile, procs>>

\* ------------------------------------------------------------ bounds, inputs
MaxLines == 3
MaxExec == 25
MaxMidUndo == 1

Letter(i) == At(<<"A", "B", "C", "D", "E", "F">>, i - 1)

\* the indentations and markers an input line may have
IndentMarkers ==
  { <<<<>>, <<"-">>>>, <<<<>>, <<"*">>>>, <<<<TAB>>, <<"-">>>>,
    <<<<TAB, TAB>>, <<"-">>>>, <<<<SP, SP>>, <<"-">>>> }

ListLine(indent, marker, text) == indent \o marker \o <<SP>> \o text

\* the lines an input document may have at position i: a list item whose text
\* names the position, or a blank line
LinePool(i) ==
  { ListLine(im[1], im[2], <<Letter(i)>>) : im \in IndentMarkers } \cup { <<>> }

RECURSIVE LinesOfLen(_)
LinesOfLen(n) ==
  IF n = 0 THEN { <<>> }
  ELSE { Append(ls, l) : ls \in LinesOfLen(n - 1), l \in LinePool(n) }

RECURSIVE JoinCRLF(_)
JoinCRLF(lines) ==
  IF Len(lines) = 0 THEN <<>>
  ELSE IF Len(lines) = 1 THEN lines[1]
  ELSE lines[1] \o <<CR, NL>> \o JoinCRLF(Tail(lines))

\* the outline of the sibling-insertion example: A with children B and C, then D
SiblingExample ==
  Join(<< ListLine(<<>>, <<"-">>, <<"A">>), ListLine(<<TAB>>, <<"-">>, <<"B">>),
          ListLine(<<TAB>>, <<"-">>, <<"C">>), ListLine(<<>>, <<"-">>, <<"D">>) >>)

\* an outline with a blank line between the two children of A
BlankLineExample ==
  Join(<< ListLine(<<>>, <<"-">>, <<"A">>), ListLine(<<TAB>>, <<"-">>, <<"B">>),
          <<>>, ListLine(<<TAB>>, <<"-">>, <<"C">>) >>)

\* an item with a checkbox token and a child
CheckboxExample ==
  Join(<< ListLine(<<>>, <<"-">>, <<"[", "x", "]", SP, "A">>),
          ListLine(<<TAB>>, <<"-">>, <<"B">>) >>)

\* an outline under a frontmatter block that holds a key
FrontmatterExample ==
  Join(<< Rule, <<"k", ":", SP, "v">>, Rule, ListLine(<<>>, <<"-">>, <<"A">>),
          ListLine(<<TAB>>, <<"-">>, <<"B">>) >>)

\* an outline under a frontmatter block that holds a YAML list
FrontmatterListExample ==
  Join(<< Rule, <<"t", ":">>, ListLine(<<SP, SP>>, <<"-">>, <<"a">>), Rule,
          ListLine(<<>>, <<"-">>, <<"A">>) >>)

InputDocs ==
  { Join(ls) : ls \in UNION { LinesOfLen(n) : n \in 1..MaxLines } }
  \cup { JoinCRLF(ls) : ls \in LinesOfLen(2) }
  \cup { SiblingExample, BlankLineExample, CheckboxExample, FrontmatterExample,
         FrontmatterListExample }

\* what the one-line edit field can hold (trimmed): it holds no line break
InputTexts == { <<"x">>, <<>> }

\* what a plain-text drop can carry (trimmed and not empty): one line or more
DroppedTexts == { <<"x">>, <<"x", NL, "y">> }

\* node references a handler may hold: the nodes of a parse of the displayed
\* text, and stale references whose line lies outside the document
StaleNode(line) ==
  [text |-> <<"s">>, indent |-> <<>>, marker |-> <<"-">>, line |-> line,
   endLine |-> line, parent |-> NoParent]

NodesOf(text) ==
  LET forest == parseOutline(text) IN { forest[k] : k \in 1..Len(forest) }

NodeRefs ==
  NodesOf(data) \cup { StaleNode(-1), StaleNode(Len(Split(file))) }

\* what the host does during one operation: every call succeeds, or one fails
AllOk == [readOk |-> TRUE, writeOk |-> TRUE, rereadOk |-> TRUE, flushed |-> FALSE]

IoChoices ==
  IF editorOpen
  THEN { AllOk, [AllOk EXCEPT !.flushed = TRUE] }
  ELSE { AllOk, [AllOk EXCEPT !.readOk = FALSE], [AllOk EXCEPT !.writeOk = FALSE],
         [AllOk EXCEPT !.rereadOk = FALSE] }

Io(c) == [file |-> file, editorOpen |-> editorOpen, editor |-> editor,
          readOk |-> c.readOk, writeOk |-> c.writeOk, rereadOk |-> c.rereadOk,
          flushed |-> c.flushed]

NoOutcome == Outcome(AllOk, FALSE, <<>>, <<>>, FALSE, <<>>, <<>>, <<>>, FALSE, FALSE)

\* recorded: the handler pushed a command; drew: it redrew the diagram
Last(op, node, target, insertAsChild, text, out, recorded, drew) ==
  [op |-> op, node |-> node, target |-> target, insertAsChild |-> insertAsChild,
   text |-> text, out |-> out, recorded |-> recorded, drew |-> drew]

\* no gesture is in flight
NoProcs == <<>>

NoLast == Last("none", StaleNode(-1), StaleNode(-1), FALSE, <<>>, NoOutcome, FALSE, FALSE)

Init ==
  /\ file \in InputDocs
  /\ editorOpen \in BOOLEAN
  /\ editor = file
  /\ data = file
  /\ cmds = EmptyHistory
  /\ last = NoLast
  /\ nExec = 0
  /\ nMidUndo = 0
  /\ view = draw(NoView, data)
  /\ otherFile = <<>>
  /\ procs = NoProcs

\* ------------------------------------------------------------ view handlers
\* applyDocIncrementalWithCommand(d, command) after a splice operation `out`,
\* or the handler's rejection when the operation threw
Apply(op, node, target, insertAsChild, text, out, type) ==
  /\ file' = out.file
  /\ editor' = out.editor
  /\ UNCHANGED <<editorOpen, nMidUndo, otherFile, procs>>
  /\ IF out.threw
     THEN /\ UNCHANGED <<data, cmds, nExec, view>>
          /\ last' = Last(op, node, target, insertAsChild, text, out, FALSE, FALSE)
     ELSE /\ data' = out.ret
          /\ cmds' = executeCommand(cmds,
                        Command(type, data, out.ret, createNodeInfo(node),
                                IF op = "moveSubtree" THEN createNodeInfo(target) ELSE NoInfo))
          /\ nExec' = nExec + 1
          /\ view' = incrementalUpdate(view, out.ret)
          /\ last' = Last(op, node, target, insertAsChild, text, out, TRUE, TRUE)

Fresh == last.op = "none"

executeAddChildCommand ==
  /\ Fresh
  /\ \E parentNode \in NodeRefs, c \in IoChoices :
       Apply("addChild", parentNode, parentNode, FALSE, <<>>,
             addChild(Io(c), parentNode), "add-child")

executeAddSiblingCommand ==
  /\ Fresh
  /\ \E node \in NodeRefs, c \in IoChoices :
       Apply("addSibling", node, node, FALSE, <<>>,
             addSibling(Io(c), node), "add-sibling")

executeEditNodeCommand ==
  /\ Fresh
  /\ \E node \in NodeRefs, newText \in InputTexts, c \in IoChoices :
       Apply("writeNode", node, node, FALSE, newText,
             writeNode(Io(c), node, newText), "edit-node")

executeDeleteNodeCommand ==
  /\ Fresh
  /\ \E node \in NodeRefs, c \in IoChoices :
       Apply("deleteNode", node, node, FALSE, <<>>,
             deleteNode(Io(c), node), "delete-node")

executeDeleteNodeKeepChildrenCommand ==
  /\ Fresh
  /\ \E node \in NodeRefs, c \in IoChoices :
       Apply("deleteNodeKeepChildren", node, node, FALSE, <<>>,
             deleteNodeKeepChildren(Io(c), node), "delete-node-keep-children")

executeMoveSubtreeCommand ==
  /\ Fresh
  /\ \E sourceNode \in NodeRefs, targetNode \in NodeRefs, insertAsChild \in BOOLEAN,
        c \in IoChoices :
       LET out == moveSubtree(Io(c), sourceNode, targetNode, insertAsChild, NoText)
       IN IF ~out.threw /\ out.ret = data
          THEN \* newDoc === beforeState: no change, nothing recorded
               /\ file' = out.file
               /\ editor' = out.editor
               /\ last' = Last("moveSubtree", sourceNode, targetNode, insertAsChild,
                               <<>>, out, FALSE, FALSE)
               /\ UNCHANGED <<editorOpen, data, cmds, nExec, nMidUndo, view,
                               otherFile, procs>>
          ELSE Apply("moveSubtree", sourceNode, targetNode, insertAsChild, <<>>,
                     out, "move-subtree")

executeAddChildTextCommand ==
  /\ Fresh
  /\ \E parentNode \in NodeRefs, text \in DroppedTexts, c \in IoChoices :
       Apply("addChildText", parentNode, parentNode, FALSE, text,
             addChildText(Io(c), parentNode, text), "add-child-text")

Next ==
  \/ executeAddChildCommand
  \/ executeAddSiblingCommand
  \/ executeEditNodeCommand
  \/ executeDeleteNodeCommand
  \/ executeDeleteNodeKeepChildrenCommand
  \/ executeMoveSubtreeCommand
  \/ executeAddChildTextCommand

\* Every document of InputDocs, one gesture applied to it.
Spec == Init /\ [][Next]_vars

\* ------------------------------------------------------------ undo / redo
\* the outcome of a restore, in the shape of a splice outcome
RestoreOutcome(r, writeOk) ==
  Outcome([AllOk EXCEPT !.writeOk = writeOk], FALSE, r.ret, <<>>, FALSE, <<>>, r.file, editor, FALSE, r.modifyCalled)

\* MindmapView.executeUndo; returns at once unless canUndo()
executeUndo ==
  /\ canUndo(cmds)
  /\ nExec = MaxExec \/ nMidUndo < MaxMidUndo
  /\ \E writeOk \in BOOLEAN :
       LET r == undo(cmds, file, writeOk)
       IN /\ cmds' = r.h
          /\ file' = r.file
          /\ data' = IF r.ret # Null THEN r.ret ELSE data
          /\ last' = Last("executeUndo", StaleNode(-1), StaleNode(-1), FALSE, <<>>,
                          RestoreOutcome(r, writeOk), FALSE, r.ret # Null)
          /\ nMidUndo' = IF nExec < MaxExec /\ r.ret # Null THEN nMidUndo + 1 ELSE nMidUndo
          /\ view' = IF r.ret # Null THEN draw(view, r.ret) ELSE view
  /\ UNCHANGED <<editorOpen, editor, nExec, otherFile, procs>>

\* MindmapView.executeRedo; returns at once unless canRedo()
executeRedo ==
  /\ canRedo(cmds)
  /\ \E writeOk \in BOOLEAN :
       LET r == redo(cmds, file, writeOk)
       IN /\ cmds' = r.h
          /\ file' = r.file
          /\ data' = IF r.ret # Null THEN r.ret ELSE data
          /\ last' = Last("executeRedo", StaleNode(-1), StaleNode(-1), FALSE, <<>>,
                          RestoreOutcome(r, writeOk), FALSE, r.ret # Null)
          /\ view' = IF r.ret # Null THEN draw(view, r.ret) ELSE view
  /\ UNCHANGED <<editorOpen, editor, nExec, nMidUndo, otherFile, procs>>

\* the text of the k-th edit: k in two digits
Digit(d) == At(<<"0", "1", "2", "3", "4", "5", "6", "7", "8", "9">>, d)
Num(k) == <<Digit((k \div 10) % 10), Digit(k % 10)>>

\* the document after the k-th edit of the session below (k = 0: as opened)
Snap(k) == IF k = 0 THEN ListLine(<<>>, <<"-">>, <<"A">>)
           ELSE ListLine(<<>>, <<"-">>, Num(k))

\* a session of edits of one node: the k-th edit retexts it to Num(k)
editNodeAgain ==
  /\ nExec < MaxExec
  /\ \E node \in NodesOf(data) :
       Apply("writeNode", node, node, FALSE, Num(nExec + 1),
             writeNode(Io(AllOk), node, Num(nExec + 1)), "edit-node")

InitHistory ==
  /\ file = Snap(0)
  /\ editorOpen = FALSE
  /\ editor = file
  /\ data = file
  /\ cmds = EmptyHistory
  /\ last = NoLast
  /\ nExec = 0
  /\ nMidUndo = 0
  /\ view = draw(NoView, data)
  /\ otherFile = <<>>
  /\ procs = NoProcs

NextHistory ==
  \/ editNodeAgain
  \/ executeUndo
  \/ executeRedo

\* One file, a session of up to MaxExec edits with undo and redo.
SpecHistory == InitHistory /\ [][NextHistory]_vars

\* ------------------------------------------------------------ gestures in flight
(* A click on an overlay button starts a handler, and the handler runs up to *)
(* its next await: the steps of one gesture are the click, the completion of *)
(* the first vault.read, of vault.modify and of the second vault.read.  A    *)
(* step of another gesture can run wherever a handler awaits the host.       *)
MaxGestures == 2

Gestures == 1..MaxGestures

Idle == [pc |-> "idle", op |-> "none", node |-> StaleNode(-1), beforeState |-> <<>>,
         fileText |-> <<>>, newDoc |-> <<>>]

\* the splice operation a button starts
Splice(op, io, node) ==
  IF op = "addChild" THEN addChild(io, node) ELSE addSibling(io, node)

\* applyDocIncrementalWithCommand at the end of the handler of gesture g
Finish(g, newDoc) ==
  /\ data' = newDoc
  /\ cmds' = executeCommand(cmds,
                Command(IF procs[g].op = "addChild" THEN "add-child" ELSE "add-sibling",
                        procs[g].beforeState, newDoc,
                        createNodeInfo(procs[g].node), NoInfo))
  /\ nExec' = nExec + 1
  /\ view' = incrementalUpdate(view, newDoc)

\* s.onclick: the handler takes beforeState and calls vault.read
gestureClick(g) ==
  /\ procs[g].pc = "idle"
  /\ view.cy
  /\ \E op \in {"addChild", "addSibling"}, node \in NodesOf(data) :
       procs' = [procs EXCEPT ![g] = [Idle EXCEPT !.pc = "read", !.op = op,
                                                  !.node = node, !.beforeState = data]]
  /\ UNCHANGED <<file, editorOpen, editor, data, cmds, last, nExec, nMidUndo, view,
                 otherFile>>

\* the first vault.read resolves: the operation splices the lines it read and
\* calls vault.modify, or returns the text it read
gestureRead(g) ==
  /\ procs[g].pc = "read"
  /\ LET out == Splice(procs[g].op, Io(AllOk), procs[g].node)
     IN IF out.persisted
        THEN /\ procs' = [procs EXCEPT ![g].pc = "modify", ![g].fileText = file,
                                       ![g].newDoc = out.computed]
             /\ UNCHANGED <<data, cmds, nExec, view>>
        ELSE /\ procs' = [procs EXCEPT ![g].pc = "done", ![g].fileText = file,
                                       ![g].newDoc = out.ret]
             /\ Finish(g, out.ret)
  /\ UNCHANGED <<file, editorOpen, editor, last, nMidUndo, otherFile>>

\* vault.modify resolves: the file holds the text the operation computed
gestureModify(g) ==
  /\ procs[g].pc = "modify"
  /\ file' = procs[g].newDoc
  /\ procs' = [procs EXCEPT ![g].pc = "refresh"]
  /\ UNCHANGED <<editorOpen, editor, data, cmds, last, nExec, nMidUndo, view,
                 otherFile>>

\* the second vault.read resolves: the operation returns the text of the file
\* and the handler applies it
gestureRefresh(g) ==
  /\ procs[g].pc = "refresh"
  /\ procs' = [procs EXCEPT ![g].pc = "done"]
  /\ Finish(g, file)
  /\ UNCHANGED <<file, editorOpen, editor, last, nMidUndo, otherFile>>

\* MindmapView.reloadDataIncremental, on the vault's 'modify' event
reloadDataIncremental ==
  /\ view.screen # "closed"
  /\ file # data
  /\ data' = file
  /\ view' = incrementalUpdate(view, file)
  /\ UNCHANGED <<file, editorOpen, editor, cmds, last, nExec, nMidUndo, otherFile,
                 procs>>

GestureDocs ==
  { Join(ls) : ls \in LinesOfLen(1) } \cup { SiblingExample }

InitGestures ==
  /\ file \in GestureDocs
  /\ editorOpen = FALSE
  /\ editor = file
  /\ data = file
  /\ cmds = EmptyHistory
  /\ last = NoLast
  /\ nExec = 0
  /\ nMidUndo = 0
  /\ view = draw(NoView, data)
  /\ otherFile = <<>>
  /\ procs = [g \in Gestures |-> Idle]

NextGestures ==
  \/ \E g \in Gestures : gestureClick(g)
  \/ \E g \in Gestures : gestureRead(g)
  \/ \E g \in Gestures : gestureModify(g)
  \/ \E g \in Gestures : gestureRefresh(g)
  \/ reloadDataIncremental

\* One file, MaxGestures clicks on overlay buttons, each handler run step by step.
SpecGestures == InitGestures /\ [][NextGestures]_vars

\* ------------------------------------------------------------ history calls in flight
(* The methods of CommandHistory called while an undo or a redo awaits its   *)
(* vault.modify: undo and redo move currentIndex, suspend at the write and   *)
(* move it back when the write fails; executeCommand and clear are           *)
(* synchronous.                                                              *)
MaxRecorded == 3

\* history[i] is defined
Defined(h, i) == 0 <= i /\ i < Len(h.history)

\* executeCommand(command) for the next edit of the session
recordCommand ==
  /\ nExec < MaxRecorded
  /\ cmds' = executeCommand(cmds, Command("edit-node", Snap(nExec), Snap(nExec + 1),
                                          NoInfo, NoInfo))
  /\ nExec' = nExec + 1
  /\ UNCHANGED <<file, editorOpen, editor, data, last, nMidUndo, view, otherFile, procs>>

\* CommandHistory.clear
clear ==
  /\ cmds # EmptyHistory
  /\ cmds' = EmptyHistory
  /\ UNCHANGED <<file, editorOpen, editor, data, last, nExec, nMidUndo, view, otherFile,
                 procs>>

\* undo(file) up to its await: the command at the cursor is taken, the cursor
\* moves down and vault.modify is called.  With no command at the cursor the
\* try block throws at command.beforeState and the catch moves the cursor back.
undoCall(g) ==
  /\ procs[g].pc = "idle"
  /\ canUndo(cmds)
  /\ IF Defined(cmds, cmds.currentIndex)
     THEN /\ procs' = [procs EXCEPT ![g] =
                         [Idle EXCEPT !.pc = "write", !.op = "undo",
                                      !.newDoc = At(cmds.history, cmds.currentIndex).beforeState]]
          /\ cmds' = [cmds EXCEPT !.currentIndex = cmds.currentIndex - 1]
     ELSE UNCHANGED <<procs, cmds>>
  /\ UNCHANGED <<file, editorOpen, editor, data, last, nExec, nMidUndo, view, otherFile>>

\* redo(file) up to its await
redoCall(g) ==
  /\ procs[g].pc = "idle"
  /\ canRedo(cmds)
  /\ IF Defined(cmds, cmds.currentIndex + 1)
     THEN /\ procs' = [procs EXCEPT ![g] =
                         [Idle EXCEPT !.pc = "write", !.op = "redo",
                                      !.newDoc = At(cmds.history, cmds.currentIndex + 1).afterState]]
          /\ cmds' = [cmds EXCEPT !.currentIndex = cmds.currentIndex + 1]
     ELSE UNCHANGED <<procs, cmds>>
  /\ UNCHANGED <<file, editorOpen, editor, data, last, nExec, nMidUndo, view, otherFile>>

\* vault.modify of an undo or redo settles: the text is written, or the write
\* fails and the catch moves the cursor back by one
writeSettles(g) ==
  /\ procs[g].pc = "write"
  /\ procs' = [procs EXCEPT ![g] = Idle]
  /\ \E writeOk \in BOOLEAN :
       IF writeOk
       THEN file' = procs[g].newDoc /\ UNCHANGED cmds
       ELSE /\ cmds' = [cmds EXCEPT !.currentIndex =
                          IF procs[g].op = "undo" THEN cmds.currentIndex + 1
                          ELSE cmds.currentIndex - 1]
            /\ UNCHANGED file
  /\ UNCHANGED <<editorOpen, editor, data, last, nExec, nMidUndo, view, otherFile>>

InitCalls ==
  /\ file = Snap(0)
  /\ editorOpen = FALSE
  /\ editor = file
  /\ data = file
  /\ cmds = EmptyHistory
  /\ last = NoLast
  /\ nExec = 0
  /\ nMidUndo = 0
  /\ view = draw(NoView, data)
  /\ otherFile = <<>>
  /\ procs = [g \in Gestures |-> Idle]

NextCalls ==
  \/ recordCommand
  \/ clear
  \/ \E g \in Gestures : undoCall(g)
  \/ \E g \in Gestures : redoCall(g)
  \/ \E g \in Gestures : writeSettles(g)

\* One CommandHistory, its methods called while undo and redo await their write.
SpecCalls == InitCalls /\ [][NextCalls]_vars

\* ------------------------------------------------------------ view lifecycle
\* MindmapView.onOpen: this.data = await this.app.vault.read(this.file); draw()
onOpen ==
  /\ Fresh
  /\ data' = file
  /\ view' = draw(view, file)
  /\ last' = Last("onOpen", StaleNode(-1), StaleNode(-1), FALSE, <<>>, NoOutcome,
                  FALSE, TRUE)
  /\ UNCHANGED <<file, editorOpen, editor, cmds, nExec, nMidUndo, otherFile, procs>>

\* lines a file may hold: a frontmatter rule, a blank line, list items with a
\* bullet or an ordinal, a paragraph, a bullet with no space after it
ViewLinePool ==
  { Rule, <<>>, <<"-", SP, "A">>, <<"p">>, <<"1", ".", SP, "A">>, <<"-", "A">> }

RECURSIVE ViewLinesOfLen(_)
ViewLinesOfLen(n) ==
  IF n = 0 THEN { <<>> }
  ELSE { Append(ls, l) : ls \in ViewLinesOfLen(n - 1), l \in ViewLinePool }

\* " --- ", "k", "---", tab "+ A", " ": rules and a blank line with whitespace
PaddedRuleExample ==
  Join(<< <<SP>> \o Rule \o <<SP>>, <<"k">>, Rule, <<TAB, "+", SP, "A">>, <<SP>> >>)

ViewDocs ==
  { Join(ls) : ls \in UNION { ViewLinesOfLen(n) : n \in 1..MaxLines } }
  \cup { PaddedRuleExample }

InitGuard ==
  /\ file \in ViewDocs
  /\ editorOpen = FALSE
  /\ editor = file
  /\ data = <<>>
  /\ cmds = EmptyHistory
  /\ last = NoLast
  /\ nExec = 0
  /\ nMidUndo = 0
  /\ view = NoView
  /\ otherFile = <<>>
  /\ procs = NoProcs

NextGuard == onOpen

\* Every document of ViewDocs, opened in a new view.
SpecGuard == InitGuard /\ [][NextGuard]_vars

\* the second file of the vault
OtherDocs == { <<"-", SP, "Z">> }

\* what another program may write to the file
ExternalDocs == { <<"-", SP, "B">>, <<"-", SP, "B", NL, "p">> }

\* the view is open
Open == view.screen # "closed"

\* overlay buttons exist on the diagram only
Shown == view.screen = "diagram"

\* another program writes the file the view first loaded, once, while the
\* view is in step with it; the vault fires 'modify'
externalModify ==
  /\ Open
  /\ file = data
  /\ file \notin ExternalDocs
  /\ otherFile \in OtherDocs
  /\ \E d \in ExternalDocs :
       /\ file' = d
       /\ editor' = d
  /\ UNCHANGED <<editorOpen, data, cmds, last, nExec, nMidUndo, view, otherFile, procs>>

\* the host loads the other file into the view: clear() for the file it
\* unloads, onLoadFile and setViewData(text) for the file it loads (the file
\* first loaded is not loaded again)
onLoadFile ==
  /\ Open
  /\ otherFile \in OtherDocs
  /\ file' = otherFile
  /\ otherFile' = file
  /\ editor' = otherFile
  /\ data' = otherFile
  /\ view' = draw(draw(view, <<>>), otherFile)
  /\ last' = Last("onLoadFile", StaleNode(-1), StaleNode(-1), FALSE, <<>>, NoOutcome,
                  FALSE, TRUE)
  /\ UNCHANGED <<editorOpen, cmds, nExec, nMidUndo, procs>>

\* MindmapView.onClose
onClose ==
  /\ Open
  /\ view' = [view EXCEPT !.screen = "closed"]
  /\ last' = Last("onClose", StaleNode(-1), StaleNode(-1), FALSE, <<>>, NoOutcome,
                  FALSE, FALSE)
  /\ UNCHANGED <<file, editorOpen, editor, data, cmds, nExec, nMidUndo, otherFile, procs>>

\* documents of every kind the guard tells apart: an outline, a paragraph, an
\* outline under a frontmatter, an empty file
LifecycleDocs ==
  { <<"-", SP, "A">>,
    Join(<< <<"-", SP, "A">>, <<TAB, "-", SP, "B">> >>),
    <<"p">>,
    Join(<< Rule, <<"k">>, Rule, <<"-", SP, "A">> >>),
    <<>> }

\* the buttons of DeleteNodeModal: what each hands to onConfirm
DeleteOptions == {"full", "single", "null"}

\* del.onclick: the dialog opens, a button closes it and the callback runs
\* executeDeleteNodeCommand for "full" and executeDeleteNodeKeepChildrenCommand
\* for every other result
delOnclick ==
  /\ Fresh
  /\ \E node \in NodeRefs, result \in DeleteOptions, c \in IoChoices :
       IF result = "full"
       THEN Apply("deleteNode", node, node, FALSE, <<result>>,
                  deleteNode(Io(c), node), "delete-node")
       ELSE Apply("deleteNodeKeepChildren", node, node, FALSE, <<result>>,
                  deleteNodeKeepChildren(Io(c), node), "delete-node-keep-children")

InitView ==
  /\ file \in LifecycleDocs
  /\ editorOpen = FALSE
  /\ editor = file
  /\ data = file
  /\ cmds = EmptyHistory
  /\ last = NoLast
  /\ nExec = 0
  /\ nMidUndo = 0
  /\ view = draw(NoView, data)
  /\ otherFile \in OtherDocs
  /\ procs = NoProcs

NextView ==
  \/ Shown /\ executeAddChildCommand
  \/ Shown /\ executeAddChildTextCommand
  \/ Shown /\ delOnclick
  \/ Open /\ executeUndo
  \/ Open /\ executeRedo
  \/ externalModify
  \/ reloadDataIncremental
  \/ onLoadFile
  \/ onClose

\* A view from the load of a file to its close: one gesture, undo and redo,
\* writes of other programs, the load of another file.
SpecView == InitView /\ [][NextView]_vars

\* ------------------------------------------------------------ reconciliation passes
(* The passes that bring the diagram in line with view.data, at the grain of *)
(* their suspension points.  A pass is a call of MindmapView.draw or of      *)
(* MindmapView.incrementalUpdate; it suspends while it measures the boxes of *)
(* its nodes (one step here for the awaits of all its nodes) and ends with   *)
(* an overlay update.  procs[g] is the g-th call in flight: pc "read" while  *)
(* reloadDataIncremental awaits vault.read, "measure" while a pass awaits    *)
(* its measurements; flat is the text the pass parsed when it began, by the  *)
(* method that requested it.                                                 *)
MaxPasses == 2
Passes == 1..MaxPasses

NoPass == [pc |-> "idle", kind |-> "none", by |-> "none", flat |-> <<>>, measure |-> {}]

PassDocs ==
  { ListLine(<<>>, <<"-">>, <<"A">>),
    ListLine(<<>>, <<"-">>, <<"B">>),
    Join(<< ListLine(<<>>, <<"-">>, <<"A">>), ListLine(<<TAB>>, <<"-">>, <<"B">>) >>) }

\* the target widths of the rendering options
narrowNodeWidth == 100
NodeWidths == { narrowNodeWidth, defaultNodeWidth }

\* updateOverlays(view): dropped without an instance or while an update is
\* scheduled, else scheduled for the next animation frame
updateOverlays(v) ==
  IF ~v.cy \/ v.isUpdatingOverlays THEN v
  ELSE [v EXCEPT !.isUpdatingOverlays = TRUE]

\* MindmapView.draw up to its first await: the two early returns, else the
\* start of drawMindmap (wrapper on a first draw, sizeMap.clear())
DrawSuspends(d) == ~isEmptyContent(d) /\ isOutlineCompatible(d)

drawBegin(v, d) ==
  IF ~DrawSuspends(d) THEN draw(v, d)
  ELSE [v EXCEPT !.screen = IF v.cy THEN v.screen ELSE "diagram", !.sizeMap = {}]

\* a handler that fits at the end of every layout
layoutstopAlwaysFits(v) ==
  updateOverlays([v EXCEPT !.viewport = "layoutstop", !.firstFitDone = TRUE])

\* view.cy.on('layoutstop', ...): the fit and the centring, once, then the
\* overlay update
layoutstop(v) ==
  updateOverlays(IF ~v.firstFitDone
                 THEN [v EXCEPT !.viewport = "layoutstop", !.firstFitDone = TRUE]
                 ELSE v)

\* drawMindmap after its measurements: every node of its parse has been
\* measured; the instance is built or its elements replaced, and the layout
\* runs, to its 'layoutstop' handler
drawEnd(v, flat) ==
  layoutstop([v EXCEPT !.cy = TRUE, !.elements = flat,
                       !.sizeMap = SetSizes(v.sizeMap, Measure(flat, v.nodeWidth))])

\* incrementalUpdate with an instance: it suspends when a node of the parse
\* has no cached size
IncrementalSuspends(v, d) == nodesToMeasure(v, d) # {}

\* incrementalUpdate from `const els` on: the elements are replaced and the
\* overlays updated
incrementalEnd(v, flat) ==
  updateOverlays([v EXCEPT !.elements = flat])

\* `void this.draw()` as call g, requested by method by
beginDraw(g, d, by) ==
  /\ view' = drawBegin(view, d)
  /\ procs' = [procs EXCEPT ![g] =
                 IF DrawSuspends(d)
                 THEN [pc |-> "measure", kind |-> "draw", by |-> by, flat |-> d,
                       measure |-> {}]
                 ELSE NoPass]

\* `void this.incrementalUpdate()` as call g, requested by method by
beginIncrementalUpdate(g, d, by) ==
  IF ~view.cy THEN beginDraw(g, d, by)
  ELSE IF IncrementalSuspends(view, d)
  THEN /\ view' = view
       /\ procs' = [procs EXCEPT ![g] =
                      [pc |-> "measure", kind |-> "incrementalUpdate", by |-> by,
                       flat |-> d,
                       measure |-> { m.line : m \in nodesToMeasure(view, d) }]]
  ELSE /\ view' = incrementalEnd(view, d)
       /\ procs' = [procs EXCEPT ![g] = NoPass]

\* incrementalUpdate after its measurements: the nodes it set out to measure
\* have their entries set.  A node of its parse left without an entry (a draw
\* cleared the cache meanwhile) makes `dims.w` throw, and the catch calls
\* this.draw().
endIncrementalUpdate(g) ==
  LET flat == procs[g].flat
      sized == [view EXCEPT !.sizeMap =
                  SetSizes(view.sizeMap,
                           { m \in Measure(flat, view.nodeWidth) : m.line \in procs[g].measure })]
  IN IF FlatLines(flat) \subseteq CachedLines(sized)
     THEN /\ view' = incrementalEnd(sized, flat)
          /\ procs' = [procs EXCEPT ![g] = NoPass]
     ELSE /\ view' = drawBegin(sized, data)
          /\ procs' = [procs EXCEPT ![g] =
                         IF DrawSuspends(data)
                         THEN [pc |-> "measure", kind |-> "draw", by |-> procs[g].by,
                               flat |-> data, measure |-> {}]
                         ELSE NoPass]

\* the host hands the view the text of its file
setViewData(g) ==
  /\ procs[g].pc = "idle"
  /\ data' = file
  /\ beginDraw(g, file, "setViewData")
  /\ UNCHANGED <<file, editorOpen, editor, cmds, last, nExec, nMidUndo, otherFile>>

\* a gesture of the view ended: applyDocIncremental(d) with the text d the
\* gesture's operation wrote and returned
applyDocIncremental(g) ==
  /\ procs[g].pc = "idle"
  /\ view.overlays # {}
  /\ view.inlineEditor = "none"
  /\ \E d \in PassDocs :
       /\ d # data
       /\ file' = d
       /\ data' = d
       /\ beginIncrementalUpdate(g, d, "applyDocIncremental")
  /\ UNCHANGED <<editorOpen, editor, cmds, last, nExec, nMidUndo, otherFile>>

\* another program writes the file; the vault's 'modify' event calls
\* updateMindmapViews, which skips a view that holds a textarea and calls
\* reloadDataIncremental on any other
updateMindmapViews(g) ==
  /\ procs[g].pc = "idle"
  /\ \E d \in PassDocs :
       /\ d # file
       /\ file' = d
  /\ procs' = IF view.inlineEditor = "textarea" THEN procs
              ELSE [procs EXCEPT ![g] = [pc |-> "read", kind |-> "none",
                                         by |-> "reloadDataIncremental", flat |-> <<>>,
                                         measure |-> {}]]
  /\ UNCHANGED <<editorOpen, editor, data, cmds, last, nExec, nMidUndo, view, otherFile>>

\* reloadDataIncremental after its vault.read
reloadRead(g) ==
  /\ procs[g].pc = "read"
  /\ IF file # data
     THEN /\ data' = file
          /\ beginIncrementalUpdate(g, file, "reloadDataIncremental")
     ELSE /\ procs' = [procs EXCEPT ![g] = NoPass]
          /\ UNCHANGED <<data, view>>
  /\ UNCHANGED <<file, editorOpen, editor, cmds, last, nExec, nMidUndo, otherFile>>

\* the measurements of call g are done: the pass runs to its end
measured(g) ==
  /\ procs[g].pc = "measure"
  /\ IF procs[g].kind = "draw"
     THEN /\ view' = drawEnd(view, procs[g].flat)
          /\ procs' = [procs EXCEPT ![g] = NoPass]
     ELSE endIncrementalUpdate(g)
  /\ UNCHANGED <<file, editorOpen, editor, data, cmds, last, nExec, nMidUndo, otherFile>>

\* updateRenderingOptions(newOptions) up to its await: the options are
\* replaced and their save to the frontmatter begins
updateRenderingOptions(g) ==
  /\ procs[g].pc = "idle"
  /\ view.cy
  /\ \E w \in NodeWidths :
       /\ w # view.nodeWidth
       /\ view' = [view EXCEPT !.nodeWidth = w]
  /\ procs' = [procs EXCEPT ![g] = [pc |-> "save", kind |-> "none",
                                    by |-> "updateRenderingOptions", flat |-> <<>>,
                                    measure |-> {}]]
  /\ UNCHANGED <<file, editorOpen, editor, data, cmds, last, nExec, nMidUndo, otherFile>>

\* updateRenderingOptions after its await: sizeMap.clear(), void this.draw()
optionsSaved(g) ==
  /\ procs[g].pc = "save"
  /\ \E cleared \in { [view EXCEPT !.sizeMap = {}] } :
       /\ view' = drawBegin(cleared, data)
       /\ procs' = [procs EXCEPT ![g] =
                      IF DrawSuspends(data)
                      THEN [pc |-> "measure", kind |-> "draw",
                            by |-> "updateRenderingOptions", flat |-> data, measure |-> {}]
                      ELSE NoPass]
  /\ UNCHANGED <<file, editorOpen, editor, data, cmds, last, nExec, nMidUndo, otherFile>>

\* the instance's 'pan zoom' handler
panZoom ==
  /\ view.cy
  /\ ~view.isUpdatingOverlays
  /\ view' = updateOverlays(view)
  /\ UNCHANGED <<file, editorOpen, editor, data, cmds, last, nExec, nMidUndo, otherFile,
                 procs>>

\* the scheduled animation frame: every overlay is removed, with the element
\* an inline edit put into one, and one overlay is built for each node of the
\* parse of view.data
performOverlayUpdate ==
  /\ view.isUpdatingOverlays
  /\ view' = [view EXCEPT !.isUpdatingOverlays = FALSE, !.overlays = FlatLines(data),
                          !.inlineEditor = "none"]
  /\ UNCHANGED <<file, editorOpen, editor, data, cmds, last, nExec, nMidUndo, otherFile,
                 procs>>

\* a double click on an overlay box puts an <input type="text"> into it
boxDblclick ==
  /\ view.overlays # {}
  /\ view.inlineEditor = "none"
  /\ view' = [view EXCEPT !.inlineEditor = "input"]
  /\ UNCHANGED <<file, editorOpen, editor, data, cmds, last, nExec, nMidUndo, otherFile,
                 procs>>

\* finish(save) with Escape, or with the text unchanged: the element is removed
finishInlineEdit ==
  /\ view.inlineEditor # "none"
  /\ view' = [view EXCEPT !.inlineEditor = "none"]
  /\ UNCHANGED <<file, editorOpen, editor, data, cmds, last, nExec, nMidUndo, otherFile,
                 procs>>

InitPasses ==
  /\ file \in PassDocs
  /\ editorOpen = FALSE
  /\ editor = file
  /\ data = <<>>
  /\ cmds = EmptyHistory
  /\ last = NoLast
  /\ nExec = 0
  /\ nMidUndo = 0
  /\ view = NoView
  /\ otherFile = <<>>
  /\ procs = [g \in Passes |-> NoPass]

NextPasses ==
  \/ \E g \in Passes : setViewData(g)
  \/ \E g \in Passes : applyDocIncremental(g)
  \/ \E g \in Passes : updateMindmapViews(g)
  \/ \E g \in Passes : reloadRead(g)
  \/ \E g \in Passes : measured(g)
  \/ \E g \in Passes : updateRenderingOptions(g)
  \/ \E g \in Passes : optionsSaved(g)
  \/ panZoom
  \/ performOverlayUpdate
  \/ boxDblclick
  \/ finishInlineEdit

\* One view, its draw and update passes interleaved at their awaits.
SpecPasses == InitPasses /\ [][NextPasses]_vars

\* ------------------------------------------------------------ zoom and pan
(* The passes of one view with the gestures that move its viewport: the      *)
(* user's pan or zoom, a relayout after a change of the layout options, and  *)
(* the toolbar's Fit to View button.  last.op is the last of these gestures.  *)

\* the user pans or zooms the diagram; the 'pan zoom' handler runs
userPanZoom ==
  /\ view.cy
  /\ view' = updateOverlays([view EXCEPT !.viewport = "user"])
  /\ last' = [NoLast EXCEPT !.op = "userPanZoom"]
  /\ UNCHANGED <<file, editorOpen, editor, data, cmds, nExec, nMidUndo, otherFile, procs>>

\* MindmapView.relayout: the layout runs with fit: false, to its 'layoutstop'
\* handler
relayout ==
  /\ view.cy
  /\ view' = layoutstop(view)
  /\ last' = [NoLast EXCEPT !.op = "relayout"]
  /\ UNCHANGED <<file, editorOpen, editor, data, cmds, nExec, nMidUndo, otherFile, procs>>

\* MindmapView.fitToView, from the toolbar's button
fitToView ==
  /\ view.cy
  /\ view' = [view EXCEPT !.viewport = "fitToView"]
  /\ last' = [NoLast EXCEPT !.op = "fitToView"]
  /\ UNCHANGED <<file, editorOpen, editor, data, cmds, nExec, nMidUndo, otherFile, procs>>

NextFit ==
  \/ \E g \in Passes : setViewData(g)
  \/ \E g \in Passes : applyDocIncremental(g)
  \/ \E g \in Passes : measured(g)
  \/ performOverlayUpdate
  \/ userPanZoom
  \/ relayout
  \/ fitToView

\* One view, its passes, and the gestures that move or refit the viewport.
SpecFit == InitPasses /\ [][NextFit]_vars

\* ------------------------------------------------------------ long documents
(* A history that records edits of documents about as long as the ceiling   *)
(* of a stored snapshot, and undoes and redoes them.  A text is a string     *)
(* here, one character per element, and the diagram is left out: only the    *)
(* texts and the history matter.                                             *)
MaxLong == 2

\* the string of n characters c
RECURSIVE LongText(_, _)
LongText(n, c) ==
  IF n = 0 THEN ""
  ELSE IF n % 2 = 1 THEN c \o LongText(n - 1, c)
  ELSE LongText(n \div 2, c \o c)

\* texts one character below the ceiling, at it and one above it, and one
\* that differs from another only after the ceiling
LongDocs ==
  { LongText(n, c) : n \in {maxContentLength - 1, maxContentLength, maxContentLength + 1},
                     c \in {"a", "b"} }
  \cup { LongText(maxContentLength, "a") \o "b" }

\* a gesture replaced the document data by d and recorded the command
recordLong ==
  /\ nExec < MaxLong
  /\ \E d \in LongDocs :
       /\ d # data
       /\ file' = d
       /\ data' = d
       /\ cmds' = executeCommand(cmds, Command("edit-node", data, d, NoInfo, NoInfo))
  /\ last' = [NoLast EXCEPT !.op = "recordLong", !.recorded = TRUE]
  /\ nExec' = nExec + 1
  /\ UNCHANGED <<editorOpen, editor, nMidUndo, view, otherFile, procs>>

\* MindmapView.executeUndo without its draw
undoLong ==
  /\ canUndo(cmds)
  /\ LET r == undo(cmds, file, TRUE)
     IN /\ cmds' = r.h
        /\ file' = r.file
        /\ data' = r.ret
        /\ last' = [NoLast EXCEPT !.op = "undoLong"]
  /\ UNCHANGED <<editorOpen, editor, nExec, nMidUndo, view, otherFile, procs>>

\* MindmapView.executeRedo without its draw
redoLong ==
  /\ canRedo(cmds)
  /\ LET r == redo(cmds, file, TRUE)
     IN /\ cmds' = r.h
        /\ file' = r.file
        /\ data' = r.ret
        /\ last' = [NoLast EXCEPT !.op = "redoLong"]
  /\ UNCHANGED <<editorOpen, editor, nExec, nMidUndo, view, otherFile, procs>>

\* the view starts on a long document; no markdown editor is open
InitLong ==
  /\ file \in LongDocs
  /\ editorOpen = FALSE
  /\ editor = ""
  /\ data = file
  /\ cmds = EmptyHistory
  /\ last = NoLast
  /\ nExec = 0
  /\ nMidUndo = 0
  /\ view = NoView
  /\ otherFile = <<>>
  /\ procs = NoProcs

NextLong ==
  \/ recordLong
  \/ undoLong
  \/ redoLong

\* Edits of long documents, recorded, undone and redone.
SpecLong == InitLong /\ [][NextLong]_vars

\* ------------------------------------------------------------ parsed texts
(* parseOutline applied to texts of up to MaxParseLines lines.  procs holds  *)
(* the forest it returned.                                                   *)
MaxParseLines == 4

\* the indents of the list items: none, two spaces, a tab, two tabs, a space
\* and a tab
ParseIndents == { <<>>, <<SP, SP>>, <<TAB>>, <<TAB, TAB>>, <<SP, TAB>> }

\* the lines a text may have at position i: a bullet item at each indent, an
\* ordinal item, a paragraph, a blank line
ParseLinePool(i) ==
  { ListLine(indent, <<"-">>, <<Letter(i)>>) : indent \in ParseIndents }
  \cup { <<"1", ".", SP, Letter(i)>>, <<"p">>, <<>> }

RECURSIVE ParseLinesOfLen(_)
ParseLinesOfLen(n) ==
  IF n = 0 THEN { <<>> }
  ELSE { Append(ls, l) : ls \in ParseLinesOfLen(n - 1), l \in ParseLinePool(n) }

\* an item with a carriage return inside its text, an item with no text, a
\* bullet with nothing after it, and an item with a checkbox
OddLinesExample ==
  Join(<< <<"-", SP, "A", CR, "B">>, <<TAB, "-", SP>>, <<TAB, "-">>,
          <<TAB, "-", SP, "[", "x", "]", SP, "D">> >>)

ParseDocs ==
  { Join(ls) : ls \in UNION { ParseLinesOfLen(n) : n \in 1..MaxParseLines } }
  \cup { OddLinesExample }

\* a caller parses the text
parseText ==
  /\ last.op = "none"
  /\ procs' = parseOutline(data)
  /\ last' = [NoLast EXCEPT !.op = "parseOutline", !.text = data]
  /\ UNCHANGED <<file, editorOpen, editor, data, cmds, nExec, nMidUndo, view, otherFile>>

InitParse ==
  /\ file \in ParseDocs
  /\ editorOpen = FALSE
  /\ editor = file
  /\ data = file
  /\ cmds = EmptyHistory
  /\ last = NoLast
  /\ nExec = 0
  /\ nMidUndo = 0
  /\ view = NoView
  /\ otherFile = <<>>
  /\ procs = NoProcs

NextParse == parseText

\* Every text of ParseDocs, parsed.
SpecParse == InitParse /\ [][NextParse]_vars

\* ------------------------------------------------------------ claims
\* the lines of the text the last operation read, and its result's lines
ReadLines == Split(last.out.readText)
ComputedLines == Split(last.out.computed)

\* the last handler ran the splice operation op, which obtained the text
Ran(op) == last.op = op /\ last.out.readOk

InRange(node) == 0 <= node.line /\ node.line < Len(ReadLines)

\* the operation left the file and every editor buffer alone
WroteNothing == ~last.out.setValueCalled /\ ~last.out.modifyCalled

\* the subtree-span end boundary of a node in the text read
SpanEnd(node) == subtreeEnd(ReadLines, node.line, node.indent)

\* C1: moveSubtree returns the text unchanged and writes nothing when source and
\* target are the same line, and when the target's line lies inside the source's
\* own subtree span, for both values of insertAsChild.
C1_RejectedMoveIsNoOp ==
  (/\ Ran("moveSubtree")
   /\ InRange(last.node) /\ InRange(last.target)
   /\ \/ last.node.line = last.target.line
      \/ last.node.line < last.target.line /\ last.target.line < SpanEnd(last.node))
  => (~last.out.threw /\ last.out.ret = last.out.readText /\ WroteNothing)

\* the k-th command of the edit session
IsEdit(command, k) == command.beforeState = Snap(k - 1) /\ command.afterState = Snap(k)

\* C2: the history never holds more than maxHistorySize commands; after n >=
\* maxHistorySize commands recorded with no undo before the last of them (n = 25:
\* commands 6..25) it holds exactly the maxHistorySize most recent ones in order,
\* right after the last one the cursor is on the newest and canUndo() is true, and
\* no number of undo calls brings back a state older than the oldest kept command.
C2_HistoryBounded ==
  /\ Len(cmds.history) <= maxHistorySize
  /\ (nMidUndo = 0 /\ nExec >= maxHistorySize) =>
       /\ Len(cmds.history) = maxHistorySize
       /\ \A i \in 1..maxHistorySize :
            IsEdit(cmds.history[i], nExec - maxHistorySize + i)
       /\ last.recorded => (cmds.currentIndex = maxHistorySize - 1 /\ canUndo(cmds))
       /\ \A j \in 0..(nExec - maxHistorySize - 1) : file # Snap(j) /\ data # Snap(j)
       /\ ~canUndo(cmds) => file = Snap(nExec - maxHistorySize)

\* 25 commands were recorded and then undone as far as undo goes
C2_Witness ==
  /\ nExec = 25 /\ nMidUndo = 0
  /\ Len(cmds.history) = 20 /\ cmds.currentIndex = -1
  /\ last.op = "executeUndo"

\* C3: with canUndo(), undo writes the beforeState of the command at the cursor,
\* returns it and moves the cursor back by one; with canRedo(), redo writes the
\* afterState of the command after the cursor, returns it and moves the cursor
\* forward by one; without, the call returns null and changes nothing.
C3_RestoreStep ==
  /\ (last'.op = "executeUndo" /\ last'.out.writeOk) =>
       LET command == At(cmds.history, cmds.currentIndex)
       IN /\ canUndo(cmds)
          /\ last'.out.modifyCalled /\ file' = command.beforeState
          /\ last'.out.ret = command.beforeState
          /\ cmds'.currentIndex = cmds.currentIndex - 1
          /\ cmds'.history = cmds.history
  /\ (last'.op = "executeRedo" /\ last'.out.writeOk) =>
       LET command == At(cmds.history, cmds.currentIndex + 1)
       IN /\ canRedo(cmds)
          /\ last'.out.modifyCalled /\ file' = command.afterState
          /\ last'.out.ret = command.afterState
          /\ cmds'.currentIndex = cmds.currentIndex + 1
          /\ cmds'.history = cmds.history

C3_NullWithoutCommand ==
  \A writeOk \in BOOLEAN :
    /\ ~canUndo(cmds) => undo(cmds, file, writeOk) = Restored(cmds, file, Null, FALSE)
    /\ ~canRedo(cmds) => redo(cmds, file, writeOk) = Restored(cmds, file, Null, FALSE)

C3_UndoRedoRestore == [](C3_NullWithoutCommand) /\ [][C3_RestoreStep]_vars

\* a redo has just restored a command undone before
C3_Witness ==
  /\ last.op = "executeRedo" /\ last.out.writeOk
  /\ file = At(cmds.history, cmds.currentIndex).afterState
  /\ Len(cmds.history) > 1

\* the maxHistorySize most recent entries of a list
Newest(list) == SliceFrom(list, Max(Len(list) - maxHistorySize, 0))

\* C4: executeCommand discards every command after the cursor before appending:
\* right after it canRedo() is false and the new command is the last entry and
\* the entry at the cursor, the one the next undo reverts.
C4_RecordStep ==
  (last'.recorded /\ nExec' = nExec + 1) =>
    LET new == At(cmds'.history, cmds'.currentIndex)
    IN /\ ~canRedo(cmds')
       /\ cmds'.currentIndex = Len(cmds'.history) - 1
       /\ new.beforeState = data /\ new.afterState = last'.out.ret
       /\ cmds'.history = Newest(Append(Slice(cmds.history, 0, cmds.currentIndex + 1), new))
       /\ undo(cmds', file', TRUE).ret = data

C4_ExecuteTruncatesRedoTail == [][C4_RecordStep]_vars

\* a command was recorded after an undo: an undone command is gone and the new
\* one is at the cursor
C4_Witness ==
  /\ last.recorded /\ nMidUndo > 0
  /\ Len(cmds.history) < nExec /\ nExec <= maxHistorySize
  /\ cmds.currentIndex = Len(cmds.history) - 1

\* C5: when the file write inside undo or redo fails, the call returns null, the
\* cursor and the history list are as before the call, and executeUndo /
\* executeRedo leave view.data unchanged and do not redraw.
C5_FailedRestoreStep ==
  (last'.op \in {"executeUndo", "executeRedo"} /\ ~last'.out.writeOk) =>
    /\ last'.out.ret = Null
    /\ cmds' = cmds
    /\ file' = file
    /\ data' = data
    /\ ~last'.drew

C5_WriteFailureRollsBack == [][C5_FailedRestoreStep]_vars

\* an undo whose write failed, with commands on both sides of the cursor
C5_Witness ==
  /\ last.op = "executeUndo" /\ ~last.out.writeOk /\ last.out.modifyCalled
  /\ canUndo(cmds) /\ canRedo(cmds)

\* ------------------------------------------------------------ splice claims
SpliceOps == {"addChild", "addSibling", "writeNode", "deleteNode",
              "deleteNodeKeepChildren", "moveSubtree", "addChildText"}

\* the node reference comes from a parse of the text the operation read
FreshNode(node) == node \in NodesOf(last.out.readText)

\* the returned text is the persisted one whenever the write went to the file
\* and succeeded (the operation returns what it reads back from the file)
ReturnsComputed ==
  (last.out.modifyCalled /\ last.out.writeOk) =>
    (~last.out.threw => last.out.ret = last.out.computed)

\* new is old with the one line `line` inserted at index at
InsertedAt(old, new, at, line) ==
  /\ Len(new) = Len(old) + 1
  /\ At(new, at) = line
  /\ \A i \in 0..(Len(old) - 1) : At(old, i) = At(new, IF i < at THEN i ELSE i + 1)

\* the index of the first line after `from` that is not blank and whose leading
\* whitespace is no longer than width, or the number of lines
Boundary(lines, from, width) ==
  LET stops == { i \in (from + 1)..(Len(lines) - 1) :
                   ~IsBlank(At(lines, i)) /\ Len(LeadingWs(At(lines, i))) <= width }
  IN IF stops = {} THEN Len(lines)
     ELSE CHOOSE i \in stops : \A j \in stops : i <= j

\* the node of a forest at a line (the forest has one, see the uses)
NodeAt(forest, line) == CHOOSE n \in { forest[k] : k \in 1..Len(forest) } : n.line = line

HasNodeAt(forest, line) == \E k \in 1..Len(forest) : forest[k].line = line

\* C6: a splice operation given a node whose line is negative or >= the number
\* of lines returns the text it read and writes neither the file nor an editor
\* buffer; for moveSubtree when either source or target is out of range.
C6_OutOfRangeIsNoOp ==
  (/\ last.op \in SpliceOps /\ last.out.readOk
   /\ \/ ~InRange(last.node)
      \/ last.op = "moveSubtree" /\ ~InRange(last.target))
  => /\ ~last.out.threw
     /\ last.out.ret = last.out.readText
     /\ last.out.ret = file
     /\ ~last.out.persisted /\ WroteNothing
     /\ editor = data

\* a move whose source is a node of the document and whose target line is the
\* number of lines
C6_Witness ==
  /\ Ran("moveSubtree") /\ FreshNode(last.node)
  /\ last.target.line = Len(ReadLines)
  /\ last.out.ret = file /\ Len(ReadLines) > 1

C8_SiblingAfterSubtree ==
  (Ran("addSibling") /\ InRange(last.node)) =>
    LET at == Boundary(ReadLines, last.node.line, Len(last.node.indent))
        forest == parseOutline(last.out.computed)
    IN /\ last.out.persisted /\ ReturnsComputed
       /\ InsertedAt(ReadLines, ComputedLines, at,
                     last.node.indent \o last.node.marker \o <<SP>>)
       /\ FreshNode(last.node) =>
            /\ HasNodeAt(forest, at) /\ HasNodeAt(forest, last.node.line)
            /\ NodeAt(forest, at).parent = NodeAt(forest, last.node.line).parent
            /\ NodeAt(forest, at).parent = last.node.parent
            /\ LET siblings == ChildrenOf(forest, last.node.parent)
               IN \E k \in 1..(Len(siblings) - 1) :
                    siblings[k].line = last.node.line /\ siblings[k + 1].line = at

Content(line) == SubSeq(line, Len(LeadingWs(line)) + 1, Len(line))

\* after is before with a shorter leading whitespace and the same content
LostIndent(before, after) ==
  /\ Len(LeadingWs(after)) < Len(LeadingWs(before))
  /\ Content(after) = Content(before)

\* C10: deleteNodeKeepChildren(node) removes only the line node.line; every line
\* of node's former subtree loses one level of indentation and every line from
\* the end of the subtree on is unchanged; reparsed, each former child of node
\* is a child of node's former parent (or a root) and every deeper descendant
\* keeps its parent.
C10_KeepChildrenPromotes ==
  (Ran("deleteNodeKeepChildren") /\ InRange(last.node) /\ FreshNode(last.node)) =>
    LET old == ReadLines
        new == IF Len(old) = 1 THEN <<>> ELSE ComputedLines
        end == Boundary(old, last.node.line, Len(last.node.indent))
        before == parseOutline(last.out.readText)
        after == parseOutline(last.out.computed)
    IN /\ last.out.persisted /\ ReturnsComputed
       /\ Len(old) = 1 => last.out.computed = <<>>
       /\ Len(new) = Len(old) - 1
       /\ \A i \in 0..(last.node.line - 1) : At(new, i) = At(old, i)
       /\ \A i \in (last.node.line + 1)..(end - 1) :
            IF HasNodeAt(before, i) THEN LostIndent(At(old, i), At(new, i - 1))
            ELSE IsBlank(At(new, i - 1))
       /\ \A i \in end..(Len(old) - 1) : At(new, i - 1) = At(old, i)
       /\ \A k \in 1..Len(before) :
            (before[k].line > last.node.line /\ before[k].line <= last.node.endLine) =>
              /\ HasNodeAt(after, before[k].line - 1)
              /\ NodeAt(after, before[k].line - 1).parent =
                   IF before[k].parent = last.node.line THEN last.node.parent
                   ELSE before[k].parent - 1

\* the line is a list item whose text starts with a checkbox token
HasCheckbox(line) ==
  MatchListItem(line).ok /\ StripCheckbox(MatchListItem(line).text) # MatchListItem(line).text

\* C11: writeNode(node, text) replaces exactly the line at node.line with
\* node.indent + node.marker + " " + text and leaves every other line and the
\* line count unchanged; a checkbox token that was on the line is not carried
\* over into the new line.
C11_WriteNodeReplacesLine ==
  (Ran("writeNode") /\ InRange(last.node)) =>
    /\ last.out.persisted /\ ReturnsComputed
    /\ Len(ComputedLines) = Len(ReadLines)
    /\ At(ComputedLines, last.node.line) =
         last.node.indent \o last.node.marker \o <<SP>> \o last.text
    /\ \A i \in 0..(Len(ReadLines) - 1) :
         i # last.node.line => At(ComputedLines, i) = At(ReadLines, i)
    /\ (FreshNode(last.node) /\ HasCheckbox(At(ReadLines, last.node.line))) =>
         /\ ~HasCheckbox(At(ComputedLines, last.node.line))
         /\ NodeAt(parseOutline(last.out.computed), last.node.line).text = last.text

\* the edit of an item that carries a checkbox token and has a child
C11_Witness ==
  /\ Ran("writeNode") /\ FreshNode(last.node)
  /\ HasCheckbox(At(ReadLines, last.node.line))
  /\ Len(ReadLines) > 1 /\ last.text = <<"x">>
  /\ last.out.ret = last.out.computed
  /\ file = ListLine(<<>>, <<"-">>, <<"x">>) \o <<NL>> \o ListLine(<<TAB>>, <<"-">>, <<"B">>)

\* text with every line break (LF or CR LF) replaced by one space
RECURSIVE Flattened(_)
Flattened(text) ==
  IF text = <<>> THEN <<>>
  ELSE IF Head(text) = NL THEN <<SP>> \o Flattened(Tail(text))
  ELSE IF Head(text) = CR /\ Len(text) > 1 /\ text[2] = NL
       THEN <<SP>> \o Flattened(Tail(Tail(text)))
  ELSE <<Head(text)>> \o Flattened(Tail(text))

\* C12: addChildText(parent, text) adds exactly one line, at index
\* parent.endLine + 1, equal to parent.indent + tab + "- " + text with every
\* embedded newline collapsed to a space, for every text including text with
\* newlines; every other line is unchanged.
C12_AddChildTextOneLine ==
  (Ran("addChildText") /\ InRange(last.node) /\ FreshNode(last.node)) =>
    /\ last.out.persisted /\ ReturnsComputed
    /\ InsertedAt(ReadLines, ComputedLines, last.node.endLine + 1,
                  last.node.indent \o <<TAB, "-", SP>> \o Flattened(last.text))

\* source and target are nodes of the text read and the target's line lies
\* outside the source's span [source.line, end)
ValidMove ==
  /\ Ran("moveSubtree")
  /\ InRange(last.node) /\ InRange(last.target)
  /\ \/ last.target.line < last.node.line
     \/ last.target.line >= Boundary(ReadLines, last.node.line, Len(last.node.indent))
  /\ {last.node, last.target} \subseteq NodesOf(last.out.readText)

\* C13: for every valid moveSubtree the number of lines is unchanged, every line
\* outside the source span is identical and those lines keep their relative
\* order, and the moved lines stay contiguous, in their original order, each
\* with the same content after its leading whitespace.
C13_MoveFrame ==
  ValidMove =>
    LET old == ReadLines
        new == ComputedLines
        from == last.node.line
        size == Boundary(old, from, Len(last.node.indent)) - from
    IN /\ last.out.persisted /\ ReturnsComputed
       /\ Len(new) = Len(old)
       /\ \E at \in 0..(Len(old) - size) :
            /\ \A j \in 0..(size - 1) :
                 Content(At(new, at + j)) = Content(At(old, from + j))
            /\ SubSeq(new, 1, at) \o SubSeq(new, at + size + 1, Len(new))
                 = SubSeq(old, 1, from) \o SubSeq(old, from + size + 1, Len(old))

\* a node with a descendant moved to a later target, lines before and between
C13_Witness ==
  /\ ValidMove /\ last.out.ret = last.out.computed
  /\ last.node.endLine > last.node.line
  /\ last.target.line > last.node.endLine
  /\ last.out.computed # last.out.readText

\* the document of the move example: A, B and B's child C
MoveExample ==
  Join(<< ListLine(<<>>, <<"-">>, <<"A">>), ListLine(<<>>, <<"-">>, <<"B">>),
          ListLine(<<TAB>>, <<"-">>, <<"C">>) >>)

\* the move of the example: A onto B, as a child
MoveExampleRan ==
  /\ Ran("moveSubtree") /\ last.out.readText = MoveExample
  /\ FreshNode(last.node) /\ last.node.line = 0
  /\ FreshNode(last.target) /\ last.target.line = 1
  /\ last.insertAsChild

\* C14 as stated: on [- A, - B, tab- C], moveSubtree(A, B, insertAsChild = true)
\* yields [- B, tab- C, tab- A], the moved node after B's existing child C.
C14_MovedAfterExistingChild ==
  MoveExampleRan =>
    last.out.computed =
      Join(<< ListLine(<<>>, <<"-">>, <<"B">>), ListLine(<<TAB>>, <<"-">>, <<"C">>),
              ListLine(<<TAB>>, <<"-">>, <<"A">>) >>)

\* C14 amended: on [- A, - B, tab- C], moveSubtree(A, B, insertAsChild = true)
\* yields [- B, tab- A, tab- C]: the moved node is re-indented to one level
\* below B and placed immediately after B's line, before B's existing child C.
C14_MovedBeforeExistingChild ==
  MoveExampleRan =>
    /\ last.out.persisted /\ ReturnsComputed
    /\ last.out.computed =
         Join(<< ListLine(<<>>, <<"-">>, <<"B">>), ListLine(<<TAB>>, <<"-">>, <<"A">>),
                 ListLine(<<TAB>>, <<"-">>, <<"C">>) >>)
    /\ LET forest == parseOutline(last.out.computed)
       IN /\ NodeAt(forest, 1).text = <<"A">> /\ NodeAt(forest, 1).parent = 0
          /\ ChildrenOf(forest, 0)[1].line = 1

\* the move of the example, written to the file and returned
C14_Witness ==
  MoveExampleRan /\ last.out.ret = last.out.computed /\ file = last.out.computed

\* the move the handler just made is one the splice editor is to reject: an
\* out-of-range line, source and target on the same line, or the target's line
\* inside the source's span
RejectedMoveDone ==
  /\ last'.op = "moveSubtree" /\ last' # last /\ last'.out.readOk
  /\ LET lines == Split(last'.out.readText)
         from == last'.node.line
         to == last'.target.line
     IN \/ from < 0 \/ from >= Len(lines) \/ to < 0 \/ to >= Len(lines)
        \/ from = to
        \/ from < to /\ to < Boundary(lines, from, Len(last'.node.indent))

\* C15: executeMoveSubtreeCommand pushes no command when the move is rejected
\* (same node, target inside the source's span, or an out-of-range line): the
\* history list, the cursor and view.data are exactly as before.
C15_RejectedMoveStep == RejectedMoveDone => UNCHANGED <<cmds, data>>

C15_RejectedMoveRecordsNothing == [][C15_RejectedMoveStep]_vars

\* C16: no splice operation throws when reading the file fails: each of the
\* seven operations returns the empty string or the last-known text, and
\* writes nothing.
C16_ReadFailureDoesNotThrow ==
  (last.op \in SpliceOps /\ ~last.out.readOk) =>
    /\ ~last.out.threw
    /\ last.out.ret = <<>> \/ last.out.ret = file
    /\ ~last.out.persisted /\ WroteNothing


\* C17: gestures are serialized: at most one gesture's operation is between
\* its click and its reconcile at any time, and once every gesture is done the
\* file holds one new line per gesture on top of the text the first one read.
InFlight(g) == procs[g].pc \in {"read", "modify", "refresh"}

AllDone == \A g \in Gestures : procs[g].pc = "done"

FirstRead ==
  CHOOSE n \in { Len(Split(procs[g].fileText)) : g \in Gestures } :
    \A g \in Gestures : n <= Len(Split(procs[g].fileText))

C17_GesturesSerialized ==
  /\ \A g \in Gestures, h \in Gestures : InFlight(g) /\ InFlight(h) => g = h
  /\ AllDone => Len(Split(file)) = FirstRead + MaxGestures


\* C18: a document that is not outline-compatible is never parsed into
\* diagram elements: the elements of the diagram are always the parse of a
\* compatible text, and while the view displays an incompatible text it shows
\* the rejection state.
C18_IncompatibleNeverParsed ==
  /\ view.cy => isOutlineCompatible(view.elements)
  /\ Open /\ ~isOutlineCompatible(data) => view.screen = "rejected"


\* C19: isOutlineCompatible(doc) is true exactly when every non-blank line
\* after a leading frontmatter block matches the list-item grammar; a
\* document of one plain paragraph line is incompatible; a document with no
\* non-blank content line is compatible and isEmptyContent is true of it.
DocLines == Split(data)

\* '---', whatever whitespace surrounds it
IsRuleLine(line) ==
  \E i \in 1..Len(line) :
    /\ i + 2 <= Len(line)
    /\ \A j \in 1..Len(line) :
         IF j \in i..(i + 2) THEN line[j] = "-" ELSE IsWs(line[j])

\* the lines that close a frontmatter block opened by the first line
Closers ==
  IF IsRuleLine(DocLines[1])
  THEN { j \in 2..Len(DocLines) : IsRuleLine(DocLines[j]) }
  ELSE {}

\* the content lines: those after the block, all lines when there is none
ContentIndices ==
  IF Closers = {} THEN 1..Len(DocLines)
  ELSE { j \in 1..Len(DocLines) : \E c \in Closers : c < j }

\* optional whitespace, a bullet or a digit-dot ordinal, then whitespace
ListItemGrammar(line) ==
  \E i \in 0..Len(line), k \in 1..Len(line) :
    /\ i < k /\ k < Len(line)
    /\ \A q \in 1..i : IsWs(line[q])
    /\ \/ k = i + 1 /\ line[k] \in {"-", "*", "+"}
       \/ k > i + 1 /\ line[k] = "." /\ \A q \in (i + 1)..(k - 1) : IsDigit(line[q])
    /\ IsWs(line[k + 1])

C19_CompatibleIffAllItems ==
  /\ isOutlineCompatible(data) <=>
       \A j \in ContentIndices : IsBlank(DocLines[j]) \/ ListItemGrammar(DocLines[j])
  /\ (Len(DocLines) = 1 /\ ~IsBlank(DocLines[1]) /\ ~ListItemGrammar(DocLines[1]))
       => ~isOutlineCompatible(data)
  /\ (\A j \in ContentIndices : IsBlank(DocLines[j]))
       => isOutlineCompatible(data) /\ isEmptyContent(data)
  /\ last.op = "onOpen" =>
       (view.screen = "rejected" <=>
          \E j \in ContentIndices : ~IsBlank(DocLines[j]) /\ ~ListItemGrammar(DocLines[j]))

\* an opened document whose frontmatter is followed by list items and a blank
\* line: the guard has accepted it and the diagram is drawn
C19_Witness ==
  /\ last.op = "onOpen"
  /\ Closers # {}
  /\ \E j \in ContentIndices : ListItemGrammar(DocLines[j])
  /\ \E j \in ContentIndices : IsBlank(DocLines[j])
  /\ view.screen = "diagram"


\* C20: once the view is closed or the other file is loaded into it the
\* history is empty, canUndo() and canRedo() are false, and no undo or redo
\* writes a snapshot of the file opened before into the file open now (every
\* command of a behaviour is recorded before the other file is loaded).
OtherLoaded == otherFile \notin OtherDocs

C20_HistoryEmptiedOnClose ==
  /\ last.op \in {"onLoadFile", "onClose"} => ~canUndo(cmds) /\ ~canRedo(cmds)
  /\ (OtherLoaded /\ last.op \in {"executeUndo", "executeRedo"})
       => ~last.out.modifyCalled


\* C21: for a document that starts with a frontmatter block, no line of the
\* block is the line of a parsed node, and a splice operation applied to a
\* node of the parse leaves the lines of the block as they were.
FrontmatterEnd == StartIndex(ReadLines)

C21_FrontmatterUntouched ==
  (last.op \in SpliceOps /\ last.out.readOk /\ FrontmatterEnd > 0) =>
    /\ \A n \in NodesOf(last.out.readText) : n.line >= FrontmatterEnd
    /\ (last.out.persisted /\ {last.node, last.target} \subseteq NodesOf(last.out.readText))
         => SubSeq(ComputedLines, 1, FrontmatterEnd) = SubSeq(ReadLines, 1, FrontmatterEnd)


\* C22: the cursor stays within the list, -1 <= currentIndex <= length - 1,
\* whatever is called while an undo or a redo awaits its write.
C22_CursorInRange ==
  /\ -1 <= cmds.currentIndex
  /\ cmds.currentIndex <= Len(cmds.history) - 1


\* C23: a step in which the delete dialog is answered with Cancel leaves the
\* file, the displayed text, the view and the history unchanged; a dialog
\* whose answer removed the node's line alone was answered 'keep children',
\* and one that removed the subtree 'Delete node and all children'.
C23_DialogStep ==
  /\ (last.op = "none" /\ last'.text = <<"null">>)
       => UNCHANGED <<file, editor, data, view, cmds>>
  /\ (last.op = "none" /\ last'.text \in {<<"full">>, <<"single">>, <<"null">>}
        /\ last'.out.persisted)
       => last'.text = IF last'.op = "deleteNode" THEN <<"full">> ELSE <<"single">>

C23_CancelChangesNothing == [][C23_DialogStep]_vars


\* C24: in a document whose non-blank lines are all list items, for every
\* node n of its parse the list-item lines in [n.line, subtreeEnd(lines,
\* n.line, n.indent)) are n and the nodes the parser put under n, so the last
\* of them is n.endLine, whether the indentation is tabs, spaces or both.
RECURSIVE DescendantLines(_, _)
DescendantLines(nodes, p) ==
  LET ch == { m \in nodes : m.parent = p }
  IN { m.line : m \in ch } \cup UNION { DescendantLines(nodes, m.line) : m \in ch }

AllListItems(lines) ==
  \A i \in 1..Len(lines) : IsBlank(lines[i]) \/ MatchListItem(lines[i]).ok

SpanAgrees(nodes, lines, n) ==
  LET span == { m.line : m \in { x \in nodes :
                  n.line <= x.line /\ x.line < subtreeEnd(lines, n.line, n.indent) } }
  IN /\ span = {n.line} \cup DescendantLines(nodes, n.line)
     /\ \A l \in span : l <= n.endLine
     /\ n.endLine \in span

C24_SpanIsSubtree ==
  (last.op \in SpliceOps /\ last.out.readOk /\ AllListItems(ReadLines)) =>
    \A n \in NodesOf(last.out.readText) :
      SpanAgrees(NodesOf(last.out.readText), ReadLines, n)


\* C25: every splice operation that has read the file was given a node whose
\* line, indent and marker are those of the line at that index in the text it
\* read.
NodeIsLineOf(node, lines) ==
  /\ 0 <= node.line /\ node.line < Len(lines)
  /\ MatchListItem(At(lines, node.line)).ok
  /\ MatchListItem(At(lines, node.line)).indent = node.indent
  /\ MatchListItem(At(lines, node.line)).marker = node.marker

C25_NodeOfTextRead ==
  \A g \in Gestures :
    procs[g].pc \in {"modify", "refresh", "done"}
      => NodeIsLineOf(procs[g].node, Split(procs[g].fileText))


\* C26: the command a splice gesture recorded has as beforeState the text the
\* operation read and as afterState the text the document holds after the
\* operation's write (the editor buffer when an editor is open on the file,
\* the file otherwise).
C26_SnapshotsAreReadAndWritten ==
  (last.recorded /\ last.op \in SpliceOps /\ last.out.readOk) =>
    /\ At(cmds.history, cmds.currentIndex).beforeState = last.out.readText
    /\ At(cmds.history, cmds.currentIndex).afterState
         = IF editorOpen THEN editor ELSE file


\* C27: at most one reconciliation pass (a draw, an incrementalUpdate or an
\* overlay update) is between its start and its completion.
PassesInProgress ==
  Cardinality({ g \in Passes : procs[g].pc = "measure" })
    + (IF view.isUpdatingOverlays THEN 1 ELSE 0)

C27_OnePassAtATime == PassesInProgress <= 1


\* C28: while an inline editor is open in an overlay box, a write of the file
\* by another program starts no reload of the view, and a reload that returns
\* from its read neither replaces view.data nor starts a pass.
C28_EditingStep ==
  view.inlineEditor # "none" =>
    /\ file' # file => procs' = procs
    /\ \A g \in Passes :
         (procs[g].pc = "read" /\ procs'[g].pc # "read")
           => (data' = data /\ view' = view /\ procs'[g].pc = "idle")

C28_NoReloadWhileEditing == [][C28_EditingStep]_vars


\* C29: a splice operation that read an outline-compatible document and was
\* given nodes of its parse returns an outline-compatible document, whatever
\* text it was given.
C29_CompatiblePreserved ==
  (/\ last.op \in SpliceOps /\ last.out.readOk /\ ~last.out.threw
   /\ isOutlineCompatible(last.out.readText)
   /\ {last.node, last.target} \subseteq NodesOf(last.out.readText))
    => isOutlineCompatible(last.out.ret)


\* C30: every command in the history has a beforeState that differs from its
\* afterState.
C30_CommandsChangeDocument ==
  \A i \in 1..Len(cmds.history) :
    cmds.history[i].beforeState # cmds.history[i].afterState


\* C31: in a valid moveSubtree the target's line, once the source span is
\* removed, is at target.line minus the span's length when the target was
\* after the source and at target.line otherwise; the moved block is spliced
\* in right after that line when insertAsChild, and at the end of the target's
\* span in the remaining lines otherwise.
MoveSize == Boundary(ReadLines, last.node.line, Len(last.node.indent)) - last.node.line

MoveRest ==
  SubSeq(ReadLines, 1, last.node.line)
    \o SubSeq(ReadLines, last.node.line + MoveSize + 1, Len(ReadLines))

MoveTargetAt ==
  IF last.target.line > last.node.line THEN last.target.line - MoveSize
  ELSE last.target.line

MoveAt ==
  IF last.insertAsChild THEN MoveTargetAt + 1
  ELSE Boundary(MoveRest, MoveTargetAt, Len(last.target.indent))

C31_MoveInsertionPoint ==
  ValidMove =>
    /\ last.out.persisted
    /\ At(MoveRest, MoveTargetAt) = At(ReadLines, last.target.line)
    /\ SubSeq(ComputedLines, 1, MoveAt) = SubSeq(MoveRest, 1, MoveAt)
    /\ SubSeq(ComputedLines, MoveAt + MoveSize + 1, Len(ComputedLines))
         = SubSeq(MoveRest, MoveAt + 1, Len(MoveRest))
    /\ \A j \in 0..(MoveSize - 1) :
         Content(At(ComputedLines, MoveAt + j)) = Content(At(ReadLines, last.node.line + j))

\* a span of two lines moved to a later target as its sibling: the target's
\* index shifts by two
C31_Witness ==
  /\ ValidMove /\ last.out.persisted /\ MoveSize = 2
  /\ last.target.line > last.node.line /\ ~last.insertAsChild
  /\ last.out.computed # last.out.readText


\* C32: a valid moveSubtree gives the moved root the indent target.indent plus
\* one tab (insertAsChild) or target.indent (sibling), shifts every non-blank
\* moved line by the same amount, so that each keeps its indentation relative
\* to the moved root, and leaves the blank lines of the block as they were.
MoveNewIndent ==
  IF last.insertAsChild THEN last.target.indent \o <<TAB>> ELSE last.target.indent

C32_MoveReindents ==
  (ValidMove /\ last.out.persisted) =>
    /\ LeadingWs(At(ComputedLines, MoveAt)) = MoveNewIndent
    /\ \A j \in 0..(MoveSize - 1) :
         LET was == At(ReadLines, last.node.line + j)
             now == At(ComputedLines, MoveAt + j)
         IN IF IsBlank(was) THEN now = was
            ELSE Len(LeadingWs(now)) - Len(MoveNewIndent)
                   = Len(LeadingWs(was)) - Len(last.node.indent)


\* C33: a splice operation that persists its text puts it into the buffer of
\* the open markdown editor of the file and then does not write the file
\* itself (the file changes only when the editor saves); it writes the file
\* itself exactly when no such editor is open.
C33_PersistPath ==
  (last.op \in SpliceOps /\ last.out.persisted) =>
    /\ last.out.setValueCalled <=> editorOpen
    /\ last.out.modifyCalled <=> ~editorOpen
    /\ editorOpen => /\ editor = last.out.computed
                     /\ file = IF last.out.flushed THEN last.out.computed
                               ELSE last.out.readText
    /\ (~editorOpen /\ last.out.writeOk) => file = last.out.computed

\* the editor path: the text went to the editor's buffer and the file still
\* holds the text read
C33_Witness ==
  /\ last.op \in SpliceOps /\ last.out.persisted /\ editorOpen
  /\ last.out.setValueCalled /\ editor = last.out.computed
  /\ file = last.out.readText /\ file # editor


\* C34: executeCommand stores a snapshot of at most 50,000 characters as it is
\* and of a longer one its first 50,000 characters followed by
\* '...[truncated]'; every stored snapshot has at most 50,000 + 14
\* characters, and undo and redo write the stored snapshot, marker included.
StoredOf(state) ==
  IF Len(state) <= 50000 THEN state
  ELSE SubSeq(state, 1, 50000) \o "...[truncated]"

C34_Stored ==
  \A i \in 1..Len(cmds.history) :
    /\ Len(cmds.history[i].beforeState) <= 50000 + 14
    /\ Len(cmds.history[i].afterState) <= 50000 + 14

C34_Step ==
  /\ last'.op = "recordLong" /\ nExec' = nExec + 1 =>
       /\ At(cmds'.history, cmds'.currentIndex).beforeState = StoredOf(data)
       /\ At(cmds'.history, cmds'.currentIndex).afterState = StoredOf(data')
  /\ last'.op = "undoLong" /\ cmds'.currentIndex = cmds.currentIndex - 1 =>
       /\ file' = At(cmds.history, cmds.currentIndex).beforeState
       /\ data' = file'
  /\ last'.op = "redoLong" /\ cmds'.currentIndex = cmds.currentIndex + 1 =>
       /\ file' = At(cmds.history, cmds'.currentIndex).afterState
       /\ data' = file'

C34_SnapshotsTruncated == []C34_Stored /\ [][C34_Step]_vars

\* an edit to a text above the ceiling was recorded, undone and redone: the
\* file holds the first 50,000 characters and the marker
C34_Witness ==
  /\ last.op = "redoLong"
  /\ Len(file) = 50000 + 14
  /\ SubSeq(file, 50000 + 1, 50000 + 14) = "...[truncated]"


\* C35: the forest parseOutline returns holds exactly one node for every line
\* of the text that is a list item (optional whitespace, a bullet or an
\* ordinal, whitespace, then text with no carriage return) and no node for
\* any other line.
ParserGrammar(line) ==
  \E i \in 0..Len(line), k \in 1..Len(line), j \in 1..Len(line) :
    /\ i < k /\ k < j
    /\ \A q \in 1..i : IsWs(line[q])
    /\ \/ k = i + 1 /\ line[k] \in {"-", "*", "+"}
       \/ k > i + 1 /\ line[k] = "." /\ \A q \in (i + 1)..(k - 1) : IsDigit(line[q])
    /\ \A q \in (k + 1)..j : IsWs(line[q])
    /\ \A q \in (j + 1)..Len(line) : line[q] # CR

Parsed == last.op = "parseOutline"

ItemLines == { i \in 0..(Len(DocLines) - 1) : ParserGrammar(At(DocLines, i)) }

C35_OneNodePerItem ==
  Parsed =>
    LET flat == flattenOutline(procs)
    IN /\ { flat[k].line : k \in 1..Len(flat) } = ItemLines
       /\ Len(flat) = Cardinality(ItemLines)

\* a text with a paragraph, a blank line and items at two depths, the deeper
\* one first
C35_Witness ==
  /\ Parsed
  /\ Cardinality(ItemLines) = 2 /\ Len(DocLines) = 4
  /\ \E i \in 1..4 : DocLines[i] = <<"p">>
  /\ \E i \in 1..4 : DocLines[i] = <<>>
  /\ \E k \in 1..Len(procs) : procs[k].indent = <<TAB, TAB>> /\ procs[k].parent = NoParent


\* C36: in the forest parseOutline returns, the indent of every non-root
\* node, a tab counted as four spaces, is strictly wider than its parent's;
\* every node below the roots hangs under the most recent preceding node one
\* level up; and the scan never takes the branch that makes a node a root
\* because no node is recorded one level up.
RECURSIVE IndentWidth(_)
IndentWidth(indent) ==
  IF indent = <<>> THEN 0
  ELSE IndentWidth(Tail(indent)) + (IF Head(indent) = TAB THEN 4 ELSE 1)

RECURSIVE DepthOf(_, _)
DepthOf(forest, n) ==
  IF n.parent = NoParent THEN 0 ELSE 1 + DepthOf(forest, NodeAt(forest, n.parent))

C36_ParentIsShallower ==
  Parsed =>
    /\ \A k \in 1..Len(procs) :
         procs[k].parent # NoParent =>
           /\ HasNodeAt(procs, procs[k].parent)
           /\ IndentWidth(procs[k].indent) > IndentWidth(NodeAt(procs, procs[k].parent).indent)
           /\ procs[k].parent < procs[k].line
           /\ \A m \in 1..Len(procs) :
                (procs[m].line < procs[k].line
                   /\ DepthOf(procs, procs[m]) = DepthOf(procs, procs[k]) - 1)
                  => procs[m].line <= procs[k].parent
    /\ \A k \in 1..Len(procs) : scanOutline(data).levels[k] = DepthOf(procs, procs[k])
    /\ ~scanOutline(data).brokenChain

\* a tab-indented item under an item indented by two spaces, itself under an
\* item with no indent, and a later item one level up again
C36_Witness ==
  /\ Parsed
  /\ Len(procs) = 4
  /\ procs[1].indent = <<>> /\ procs[2].indent = <<SP, SP>>
  /\ procs[3].indent = <<TAB>> /\ procs[3].parent = procs[2].line
  /\ procs[4].indent = <<SP, SP>> /\ procs[4].parent = procs[1].line


\* C37: along the pre-order walk of the forest parseOutline returns (roots in
\* order, each node before its children, children in order) the line values
\* strictly increase, so no two nodes share a line.
C37_PreOrderLinesIncrease ==
  Parsed =>
    LET flat == flattenOutline(procs)
    IN /\ Len(flat) = Len(procs)
       /\ \A a, b \in 1..Len(flat) : a < b => flat[a].line < flat[b].line

\* a root with a child and a grandchild, followed by a second root
C37_Witness ==
  /\ Parsed
  /\ Len(procs) = 4
  /\ procs[2].parent = procs[1].line /\ procs[3].parent = procs[2].line
  /\ procs[4].parent = NoParent /\ procs[1].parent = NoParent
  /\ procs[1].indent = <<TAB>>

\* C38: in the forest parseOutline returns, a node without children has
\* endLine = line, a node with children has the endLine of its last child,
\* and endLine is the largest line among the node and its descendants.
RECURSIVE IsUnder(_, _, _)
IsUnder(forest, n, a) ==
  /\ n.parent # NoParent
  /\ \/ n.parent = a.line
     \/ IsUnder(forest, NodeAt(forest, n.parent), a)

C38_EndLineIsLastDescendant ==
  Parsed =>
    \A k \in 1..Len(procs) :
      LET n == procs[k]
          kids == { m \in 1..Len(procs) : procs[m].parent = n.line }
          under == { procs[m].line : m \in { j \in 1..Len(procs) : IsUnder(procs, procs[j], n) } }
      IN /\ kids = {} => n.endLine = n.line
         /\ kids # {} =>
              n.endLine = procs[CHOOSE m \in kids : \A j \in kids : j <= m].endLine
         /\ n.endLine \in under \cup {n.line}
         /\ \A l \in under \cup {n.line} : l <= n.endLine

\* a node with two children, the second with a child of its own: the end line
\* of the root is the grandchild's line, that of the first child its own
C38_Witness ==
  /\ Parsed
  /\ Len(procs) = 4
  /\ procs[2].parent = procs[1].line /\ procs[3].parent = procs[1].line
  /\ procs[4].parent = procs[3].line
  /\ procs[1].endLine = procs[4].line /\ procs[2].endLine = procs[2].line


\* C39: when no call is in flight and the diagram holds the nodes of the
\* document data, that is, the last reconciliation pass has completed, the
\* measurement cache has for every node an entry at the node's line that was
\* measured from the node's present text at the present target width.
C39_CacheIsFresh ==
  ((\A g \in Passes : procs[g].pc = "idle") /\ view.cy /\ view.elements = data) =>
    \A n \in NodesOf(data) :
      \E e \in view.sizeMap :
        /\ e.line = n.line
        /\ e.of = n.text
        /\ e.width = view.nodeWidth


\* C40: the flag of the one-time fit, once set, stays set; a step sets the
\* viewport by the automatic fit only when the flag was not set, and sets the
\* flag with it; every other step that changes the viewport is the user's pan
\* or zoom or an explicit fitToView; and an instance that exists has had its
\* automatic fit.
C40_Fitted == view.cy => view.firstFitDone

C40_Step ==
  /\ view.firstFitDone => view'.firstFitDone
  /\ (view'.viewport # view.viewport) =>
       \/ view'.viewport \in {"user", "fitToView"}
       \/ view'.viewport = "layoutstop" /\ ~view.firstFitDone /\ view'.firstFitDone
                                        /\ ~view.cy /\ view'.cy

C40_FitOnce == []C40_Fitted /\ [][C40_Step]_vars

\* the user has moved the viewport, a relayout has run since, and the
\* viewport is still the user's
C40_Witness ==
  /\ view.cy /\ view.firstFitDone
  /\ last.op = "relayout"
  /\ view.viewport = "user"

====
